---- MODULE Spec2Model ----
(***************************************************************************)
(* Life-Tracking: the dataset held by the store (AppData) and the handlers *)
(* and derived figures of the Investments, Money and Home screens.         *)
(*                                                                         *)
(* Conventions of the model                                                *)
(*  - a date string 'YYYY-MM-DD' is the tuple of its three '-'-separated    *)
(*    parts <<year, month, day>> (month 1..12);                            *)
(*  - a JavaScript number is an IEEE-754 binary float.  The model keeps the *)
(*    format and its round-to-nearest, ties-to-even rule and scales the    *)
(*    significand from 53 bits down to MantissaBits: a value is an integer *)
(*    count of the smallest unit in play, exact up to MaxSafe and rounded  *)
(*    by fl above it.  Division (percentages) is exact rational            *)
(*    arithmetic followed by the rounding of toFixed;                      *)
(*  - generateId() returns a fresh id (nextId); Date.now() is read from     *)
(*    the clock `now`, which has advanced between two handler calls.        *)
(***************************************************************************)
EXTENDS Integers, Sequences, FiniteSets, TLC

VARIABLES
    assets,                 \* data.assets
    trades,                 \* data.trades
    deposits,               \* data.deposits
    snapshots,              \* data.snapshots
    expenses,               \* data.expenses
    savingsBuckets,         \* data.savingsBuckets
    savingsTransactions,    \* data.savingsTransactions
    emergencyTransactions,  \* data.emergencyTransactions
    healthLogs,             \* data.healthLogs
    settings,               \* data.settings
    exported,               \* the backup file written last: <<>> or <<document>>
    timezoneOffset,         \* hours the device's local time is ahead of UTC
    notArrays,              \* the collections of data whose value is not an array
    expenseCategories,      \* data.settings.expenseCategories
    categoryBudgets,        \* data.settings.categoryBudgets: name -> budget
    loaded,                 \* StoreProvider state `loaded`, as of the last render
    storage,                \* localStorage under STORAGE_KEY: <<>> or <<text>>
    previousSession,        \* history: what storage held when the app was opened
    updates,                \* state updates queued for the next render
    saveDeps,               \* [data, loaded] the save effect ran with last, <<>> before
    loadEffectRan,          \* the load effect of the mount has run
    viewDate,               \* InvestmentsScreen state: <<year, month0>> on screen
    expensesViewDate,       \* ExpensesView state: <<year, month0>> on screen
    deleteConfirmAssetId,   \* InvestmentsScreen state, 0 = null
    now,                    \* last value returned by Date.now()
    nextId,                 \* next value returned by generateId()
    lastOp                  \* history: the upsert or deletion that ran last,
                            \* with its arguments (id: the snapshot an upsert
                            \* replaced, 0 when it inserted); NoOp after any
                            \* other handler

dataVars == <<assets, trades, deposits, snapshots>>
healthVars == <<healthLogs, settings, exported>>
storeVars == <<loaded, storage, previousSession, updates, saveDeps, loadEffectRan>>
categoryVars == <<expenseCategories, categoryBudgets>>
sessionVars == <<timezoneOffset, notArrays, categoryVars, storeVars>>
moneyVars == <<expenses, savingsBuckets, savingsTransactions, emergencyTransactions,
               expensesViewDate, healthVars, sessionVars>>
vars == <<assets, trades, deposits, snapshots, expenses, savingsBuckets,
          savingsTransactions, emergencyTransactions, healthLogs, settings, exported,
          timezoneOffset, notArrays, expenseCategories, categoryBudgets, loaded, storage, previousSession, updates, saveDeps,
          loadEffectRan, viewDate, expensesViewDate, deleteConfirmAssetId, now, nextId, lastOp>>

----------------------------------------------------------------------------
(* Bounds of the model *)

MaxAssets == 2
MaxDeposits == 2
MaxSnapshots == 2
MaxClock == 3
MaxId == 3
MantissaBits == 4

\* createdAt is optional in Snapshot: the value of a missing field
UNDEFINED == 0 - 1

InvestDates == {<<2024, 1, 31>>, <<2024, 2, 1>>}
Prices == {10, 20}
Amounts == {0 - 3, 4}
NoDate == <<0, 0, 0>>

\* a number that is NaN (parseFloat of an empty field)
NAN == 0 - 2

\* x || undefined for a number
NumberOrUndefined(x) == IF x = 0 \/ x = NAN THEN UNDEFINED ELSE x

\* INITIAL_DATA.settings; eurRate is counted in hundredths (4.97), an absent
\* targetWeight is UNDEFINED and an absent targetDate or lastBackupDate is
\* NoDate.  eurRateDate, expenseCategories and categoryBudgets are left out.
INITIAL_DATA_settings ==
    [heightCm |-> 0, eurRate |-> 497, emergencyTarget |-> 0,
     targetWeight |-> UNDEFINED, targetDate |-> NoDate,
     stepTarget |-> 10000, calorieTarget |-> 2000, lastBackupDate |-> NoDate]

----------------------------------------------------------------------------
(* Generic helpers: Array.prototype.filter / reduce / sort *)

Abs(x) == IF x < 0 THEN 0 - x ELSE x

RECURSIVE Pow2(_)
Pow2(n) == IF n = 0 THEN 1 ELSE 2 * Pow2(n - 1)

\* every integer of magnitude up to MaxSafe is a value of the number type
MaxSafe == Pow2(MantissaBits)

\* the spacing of the number type's values at magnitude a
RECURSIVE ulpOf(_, _)
ulpOf(a, u) == IF a < MaxSafe * u THEN u ELSE ulpOf(a, 2 * u)

\* the value of the number type nearest to x, ties to the even significand
fl(x) ==
    LET a == Abs(x)
        u == ulpOf(a, 1)
        q == a \div u
        r == a % u
        n == IF 2 * r < u THEN q
             ELSE IF 2 * r > u THEN q + 1
             ELSE IF q % 2 = 0 THEN q ELSE q + 1
    IN  IF x < 0 THEN 0 - n * u ELSE n * u

\* a + b and a - b on numbers
fadd(a, b) == fl(a + b)
fsub(a, b) == fl(a - b)

\* s.reduce((acc, x) => acc + x, acc)
RECURSIVE reduceSum(_, _)
reduceSum(s, acc) ==
    IF s = <<>> THEN acc ELSE reduceSum(Tail(s), fadd(acc, Head(s)))

SumSeq(s) == reduceSum(s, 0)

Range(s) == {s[i] : i \in 1..Len(s)}

\* Array.prototype.sort is stable: elements the comparator does not order keep
\* their input order.  cmp[a, b] is the comparator's result, < 0 puts a first.
StableSort(s, cmp) ==
    LET n == Len(s)
        rank(i) == Cardinality({j \in 1..n :
                       \/ cmp[s[j], s[i]] < 0
                       \/ (cmp[s[j], s[i]] = 0 /\ j < i)}) + 1
    IN  [r \in 1..n |-> s[CHOOSE i \in 1..n : rank(i) = r]]

\* new Date('YYYY-MM-DD').getTime(): UTC midnight of that day, here as a day
\* count that orders dates as the millisecond value does.
getTime(date) == (date[1] * 12 + (date[2] - 1)) * 31 + date[3]

\* s1 <= s2 on zero-padded 'YYYY-MM-DD' strings (lexicographic)
StrLeq(d1, d2) ==
    \/ d1[1] < d2[1]
    \/ d1[1] = d2[1] /\ d1[2] < d2[2]
    \/ d1[1] = d2[1] /\ d1[2] = d2[2] /\ d1[3] <= d2[3]

\* x || 0 for an optional number
OrZero(x) == IF x = UNDEFINED THEN 0 ELSE x

----------------------------------------------------------------------------
(* Initial state: INITIAL_DATA *)

\* new Date(): the month of today
thisMonth == <<2024, 1>>

\* the store once its effects have run, nothing of an earlier session stored
storeMounted ==
    /\ loaded = TRUE
    /\ storage = <<>>
    /\ previousSession = <<>>
    /\ updates = <<>>
    /\ saveDeps = <<>>
    /\ loadEffectRan = TRUE

\* two of DEFAULT_CATEGORIES, no budget set
DEFAULT_CATEGORIES == <<"A", "B">>

categoriesInitial ==
    /\ expenseCategories = DEFAULT_CATEGORIES
    /\ categoryBudgets = [n \in {} |-> 0]

NoOp == [op |-> "none", assetId |-> 0, id |-> 0, date |-> NoDate, price |-> 0]

Init ==
    /\ assets = <<>>
    /\ trades = <<>>
    /\ deposits = <<>>
    /\ snapshots = <<>>
    /\ expenses = <<>>
    /\ savingsBuckets = <<>>
    /\ savingsTransactions = <<>>
    /\ emergencyTransactions = <<>>
    /\ healthLogs = <<>>
    /\ settings = INITIAL_DATA_settings
    /\ exported = <<>>
    /\ timezoneOffset = 0
    /\ notArrays = {}
    /\ storeMounted
    /\ categoriesInitial
    /\ viewDate = thisMonth
    /\ expensesViewDate = thisMonth
    /\ deleteConfirmAssetId = 0
    /\ now = 0
    /\ nextId = 1
    /\ lastOp = NoOp

----------------------------------------------------------------------------
(* Temporal utilities *)

\* parseInt(part, 10) of one '-'-separated part of a well-formed date string
parseInt(part) == part

\* matchesMonth: the year part and the month part, compared as integers
matchesMonth(dateStr, targetYear, targetMonth) ==
    IF dateStr = NoDate THEN FALSE
    ELSE LET y == parseInt(dateStr[1])
             m == parseInt(dateStr[2])
         IN  y = targetYear /\ (m - 1) = targetMonth

isLeapYear(y) == (y % 4 = 0 /\ y % 100 # 0) \/ y % 400 = 0

\* new Date(targetYear, targetMonth + 1, 0).getDate(): the last day of the month
lastDayOfMonth(targetYear, targetMonth) ==
    IF targetMonth = 1 THEN (IF isLeapYear(targetYear) THEN 29 ELSE 28)
    ELSE IF targetMonth \in {3, 5, 8, 10} THEN 30 ELSE 31

endOfMonthStr(targetYear, targetMonth) ==
    <<targetYear, targetMonth + 1, lastDayOfMonth(targetYear, targetMonth)>>

----------------------------------------------------------------------------
(* InvestmentsScreen: portfolio valuation *)

\* a comparator that leaves out the createdAt tie-break
snapshotCompareDateOnly(a, b) == getTime(a.date) - getTime(b.date)

\* the comparator of the portfolio's snapshot sort: date, then createdAt || 0
snapshotCompare(a, b) ==
    LET timeA == getTime(a.date)
        timeB == getTime(b.date)
    IN  IF timeA # timeB THEN timeA - timeB
        ELSE OrZero(a.createdAt) - OrZero(b.createdAt)

sortedSnapshots(assetId, snaps) ==
    LET own == SelectSeq(snaps, LAMBDA s : s.assetId = assetId)
    IN  StableSort(own, [a \in Range(own), b \in Range(own) |-> snapshotCompare(a, b)])

depositsOf(assetId, deps) == SelectSeq(deps, LAMBDA d : d.assetId = assetId)

sumAmounts(deps) == SumSeq([i \in 1..Len(deps) |-> deps[i].amount])

\* a blend of market price and cost basis
currentValueBlend(hasPrice, latestPrice, investedAmount) ==
    IF hasPrice THEN latestPrice + investedAmount ELSE investedAmount

currentValueOf(hasPrice, latestPrice, investedAmount) ==
    IF hasPrice THEN latestPrice ELSE investedAmount

\* one element of `portfolio`
portfolioEntry(asset, deps, snaps) ==
    LET sorted == sortedSnapshots(asset.id, snaps)
        hasPrice == Len(sorted) > 0
        startPrice == IF hasPrice THEN sorted[1].price ELSE 0
        latestPrice == IF hasPrice THEN sorted[Len(sorted)].price ELSE 0
        assetDeposits == depositsOf(asset.id, deps)
        investedAmount == sumAmounts(assetDeposits)
    IN  [id |-> asset.id,
         hasPrice |-> hasPrice,
         startPrice |-> startPrice,
         latestPrice |-> latestPrice,
         snapshots |-> sorted,
         investedAmount |-> investedAmount,
         currentValue |-> currentValueOf(hasPrice, latestPrice, investedAmount)]

portfolio == [i \in 1..Len(assets) |-> portfolioEntry(assets[i], deposits, snapshots)]

totalCurrentValue == SumSeq([i \in 1..Len(assets) |-> portfolio[i].currentValue])

totalInvested == SumSeq([i \in 1..Len(assets) |-> portfolio[i].investedAmount])

----------------------------------------------------------------------------
(* InvestmentsScreen: activityStats, end-of-month value *)

\* the comparator of the end-of-month snapshot sort: date only
eomCompare(a, b) == getTime(a.date) - getTime(b.date)

\* the end-of-month value of one asset over the lists deps and snaps
eomAssetValueOf(asset, deps, snaps, targetYear, targetMonth) ==
    LET eom == endOfMonthStr(targetYear, targetMonth)
        invested == sumAmounts(SelectSeq(deps,
                        LAMBDA d : d.assetId = asset.id /\ StrLeq(d.date, eom)))
        upToEom == SelectSeq(snaps,
                        LAMBDA s : s.assetId = asset.id /\ StrLeq(s.date, eom))
        relevantSnapshots == StableSort(upToEom,
                        [a \in Range(upToEom), b \in Range(upToEom) |-> eomCompare(a, b)])
    IN  IF Len(relevantSnapshots) > 0
        THEN relevantSnapshots[Len(relevantSnapshots)].price
        ELSE invested

eomAssetValue(asset, targetYear, targetMonth) ==
    eomAssetValueOf(asset, deposits, snapshots, targetYear, targetMonth)

endOfMonthValue(targetYear, targetMonth) ==
    SumSeq([i \in 1..Len(assets) |-> eomAssetValue(assets[i], targetYear, targetMonth)])

----------------------------------------------------------------------------
(* InvestmentsScreen: handlers *)

\* a test that lets every submitted price through
anyPrice(price) == TRUE

\* price > 0 on the result of parseFloat: false for NaN
priceAccepted(price) == price # NAN /\ price > 0

Op(name, assetId, id, date, price) ==
    [op |-> name, assetId |-> assetId, id |-> id, date |-> date, price |-> price]

assetIds == {assets[i].id : i \in 1..Len(assets)}

snapshotCount(assetId) == Len(SelectSeq(snapshots, LAMBDA s : s.assetId = assetId))

\* handleAddAsset: the asset, an 'Initial Holdings' deposit when
\* initialHoldings > 0, a first snapshot when initialPrice > 0
handleAddAsset(initialHoldings, initialPrice, dateAdded) ==
    LET newAssetId == nextId
        withDeposit == initialHoldings > 0
        withSnapshot == priceAccepted(initialPrice)
        depositId == nextId + 1
        snapshotId == IF withDeposit THEN nextId + 2 ELSE nextId + 1
    IN  /\ Len(assets) < MaxAssets
        /\ withDeposit => Len(deposits) < MaxDeposits
        /\ withSnapshot => Len(snapshots) < MaxSnapshots /\ now < MaxClock
        /\ snapshotId <= MaxId + (IF withSnapshot THEN 0 ELSE 1)
        /\ assets' = Append(assets, [id |-> newAssetId])
        /\ deposits' = IF withDeposit
                       THEN Append(deposits, [id |-> depositId, assetId |-> newAssetId,
                                              date |-> dateAdded, amount |-> initialHoldings])
                       ELSE deposits
        /\ now' = IF withSnapshot THEN now + 1 ELSE now
        /\ snapshots' = IF withSnapshot
                        THEN Append(snapshots, [id |-> snapshotId, assetId |-> newAssetId,
                                                date |-> dateAdded, price |-> initialPrice,
                                                createdAt |-> now'])
                        ELSE snapshots
        /\ nextId' = nextId + 1 + (IF withDeposit THEN 1 ELSE 0)
                                + (IF withSnapshot THEN 1 ELSE 0)
        /\ lastOp' = NoOp
        /\ UNCHANGED <<trades, moneyVars, viewDate, deleteConfirmAssetId>>

\* handleDeposit: the asset is one of the options of the form's select
handleDeposit(assetId, amount, date) ==
    /\ assetId \in assetIds
    /\ Len(deposits) < MaxDeposits
    /\ nextId <= MaxId
    /\ deposits' = Append(deposits, [id |-> nextId, assetId |-> assetId,
                                     date |-> date, amount |-> amount])
    /\ nextId' = nextId + 1
    /\ lastOp' = NoOp
    /\ UNCHANGED <<assets, trades, snapshots, moneyVars, viewDate,
                   deleteConfirmAssetId, now>>

\* snaps.findIndex(s => s.assetId === assetId && s.date === date); 0 for -1
findIndex(snaps, assetId, date) ==
    LET hits == {i \in 1..Len(snaps) : snaps[i].assetId = assetId /\ snaps[i].date = date}
    IN  IF hits = {} THEN 0 ELSE CHOOSE i \in hits : \A j \in hits : i <= j

\* an upsert that never looks for an existing snapshot
upsertAlwaysInsert(snaps, assetId, price, date, newId, t) ==
    Append(snaps, [id |-> newId, assetId |-> assetId, date |-> date,
                   price |-> price, createdAt |-> t])

\* an upsert that keeps the createdAt of the snapshot it replaces
upsertKeepCreatedAt(snaps, assetId, price, date, newId, t) ==
    LET existingIndex == findIndex(snaps, assetId, date)
    IN  IF existingIndex >= 1
        THEN [snaps EXCEPT ![existingIndex] = [@ EXCEPT !.price = price]]
        ELSE Append(snaps, [id |-> newId, assetId |-> assetId, date |-> date,
                            price |-> price, createdAt |-> t])

\* the list handleUpsertSnapshot stores; newId and t are the values generateId()
\* and Date.now() return in the call
upsertSnapshots(snaps, assetId, price, date, newId, t) ==
    LET existingIndex == findIndex(snaps, assetId, date)
    IN  IF existingIndex >= 1
        THEN [snaps EXCEPT ![existingIndex] =
                 [@ EXCEPT !.price = price, !.createdAt = t]]
        ELSE Append(snaps, [id |-> newId, assetId |-> assetId, date |-> date,
                            price |-> price, createdAt |-> t])

handleUpsertSnapshot(assetId, price, date) ==
    /\ now < MaxClock
    /\ findIndex(snapshots, assetId, date) = 0 =>
           Len(snapshots) < MaxSnapshots /\ nextId <= MaxId
    /\ now' = now + 1
    /\ snapshots' = upsertSnapshots(snapshots, assetId, price, date, nextId, now')
    /\ nextId' = IF findIndex(snapshots, assetId, date) = 0 THEN nextId + 1 ELSE nextId
    /\ lastOp' = Op("handleUpsertSnapshot", assetId,
                    IF findIndex(snapshots, assetId, date) = 0 THEN 0
                    ELSE snapshots[findIndex(snapshots, assetId, date)].id,
                    date, price)
    /\ UNCHANGED <<assets, trades, deposits, moneyVars, viewDate, deleteConfirmAssetId>>

\* DetailView.handleSavePrice: the detail view of a live asset
handleSavePrice(assetId, price, date) ==
    /\ assetId \in assetIds
    /\ priceAccepted(price) /\ date # NoDate
    /\ handleUpsertSnapshot(assetId, price, date)

\* an edit that also drops the asset's other snapshot of the new date
updateDroppingCollision(snaps, id, newDate, newPrice) ==
    LET edited == {i \in 1..Len(snaps) : snaps[i].id = id}
        clash(s) == \E i \in edited :
                        s.id # id /\ s.assetId = snaps[i].assetId /\ s.date = newDate
        kept == SelectSeq(snaps, LAMBDA s : ~clash(s))
    IN [i \in 1..Len(kept) |->
           IF kept[i].id = id
           THEN [kept[i] EXCEPT !.date = newDate, !.price = newPrice]
           ELSE kept[i]]

updateSnapshots(snaps, id, newDate, newPrice) ==
    [i \in 1..Len(snaps) |->
        IF snaps[i].id = id
        THEN [snaps[i] EXCEPT !.date = newDate, !.price = newPrice]
        ELSE snaps[i]]

\* SnapshotRow's edit form, then handleUpdateSnapshot: a row of a live asset
handleUpdateSnapshot(id, newDate, newPrice) ==
    /\ \E i \in 1..Len(snapshots) :
           snapshots[i].id = id /\ snapshots[i].assetId \in assetIds
    /\ priceAccepted(newPrice) /\ newDate # NoDate
    /\ snapshots' = updateSnapshots(snapshots, id, newDate, newPrice)
    /\ snapshots' # snapshots
    /\ lastOp' = NoOp
    /\ UNCHANGED <<assets, trades, deposits, moneyVars, viewDate,
                   deleteConfirmAssetId, now, nextId>>

\* handleDeleteSnapshot: the list it hands to updateData
handleDeleteSnapshot(id) == SelectSeq(snapshots, LAMBDA s : s.id # id)

\* DetailView.handleDeleteSnap: the list after the request, the asset's only
\* snapshot being refused
snapshotsAfterDeleteSnap(id) ==
    IF \E i \in 1..Len(snapshots) :
           snapshots[i].id = id /\ snapshotCount(snapshots[i].assetId) <= 1
    THEN snapshots
    ELSE handleDeleteSnapshot(id)

\* DetailView.handleDeleteSnap on a row of a live asset, confirmed
handleDeleteSnap(id) ==
    /\ \E i \in 1..Len(snapshots) :
           /\ snapshots[i].id = id
           /\ snapshots[i].assetId \in assetIds
           /\ lastOp' = Op("handleDeleteSnap", snapshots[i].assetId, id, NoDate, 0)
    /\ snapshots' = snapshotsAfterDeleteSnap(id)
    /\ snapshots' # snapshots
    /\ UNCHANGED <<assets, trades, deposits, moneyVars, viewDate,
                   deleteConfirmAssetId, now, nextId>>

\* DepositRow's edit form, then handleUpdateDeposit
handleUpdateDeposit(id, newDate, newAmount) ==
    /\ \E i \in 1..Len(deposits) :
           deposits[i].id = id /\ deposits[i].assetId \in assetIds
    /\ newDate # NoDate
    /\ deposits' = [i \in 1..Len(deposits) |->
                       IF deposits[i].id = id
                       THEN [deposits[i] EXCEPT !.date = newDate, !.amount = newAmount]
                       ELSE deposits[i]]
    /\ deposits' # deposits
    /\ lastOp' = NoOp
    /\ UNCHANGED <<assets, trades, snapshots, moneyVars, viewDate,
                   deleteConfirmAssetId, now, nextId>>

handleDeleteDeposit(id) ==
    /\ \E i \in 1..Len(deposits) :
           deposits[i].id = id /\ deposits[i].assetId \in assetIds
    /\ deposits' = SelectSeq(deposits, LAMBDA d : d.id # id)
    /\ lastOp' = NoOp
    /\ UNCHANGED <<assets, trades, snapshots, moneyVars, viewDate,
                   deleteConfirmAssetId, now, nextId>>

requestDeleteAsset(assetId) ==
    /\ assetId \in assetIds
    /\ deleteConfirmAssetId # assetId
    /\ deleteConfirmAssetId' = assetId
    /\ lastOp' = NoOp
    /\ UNCHANGED <<dataVars, moneyVars, viewDate, now, nextId>>

\* confirmDeleteAsset: the asset with its snapshots, trades and deposits
confirmDeleteAsset ==
    /\ deleteConfirmAssetId # 0
    /\ assets' = SelectSeq(assets, LAMBDA a : a.id # deleteConfirmAssetId)
    /\ snapshots' = SelectSeq(snapshots, LAMBDA s : s.assetId # deleteConfirmAssetId)
    /\ trades' = SelectSeq(trades, LAMBDA t : t.assetId # deleteConfirmAssetId)
    /\ deposits' = SelectSeq(deposits, LAMBDA d : d.assetId # deleteConfirmAssetId)
    /\ deleteConfirmAssetId' = 0
    /\ lastOp' = Op("confirmDeleteAsset", deleteConfirmAssetId, 0, NoDate, 0)
    /\ UNCHANGED <<moneyVars, viewDate, now, nextId>>

----------------------------------------------------------------------------
(* src/screens/Investments.tsx: the handlers that differ *)

\* the snapshots handleUpdatePrices pushes, one per asset with a valid price
RECURSIVE pushPrices(_, _, _, _, _, _)
pushPrices(i, priceOf, today, snaps, newId, t) ==
    IF i > Len(assets) THEN snaps
    ELSE LET price == priceOf[assets[i].id]
         IN  IF priceAccepted(price)
             THEN pushPrices(i + 1, priceOf, today,
                      Append(snaps, [id |-> newId, assetId |-> assets[i].id,
                                     date |-> today, price |-> price,
                                     createdAt |-> t]),
                      newId + 1, t)
             ELSE pushPrices(i + 1, priceOf, today, snaps, newId, t)

\* handleUpdatePrices: priceOf[a] = 0 is an empty or invalid price field
handleUpdatePrices(priceOf, today) ==
    LET pushed == pushPrices(1, priceOf, today, snapshots, nextId, now + 1)
    IN  /\ Len(pushed) > Len(snapshots)
        /\ Len(pushed) <= MaxSnapshots
        /\ nextId + (Len(pushed) - Len(snapshots)) <= MaxId + 1
        /\ now < MaxClock
        /\ now' = now + 1
        /\ snapshots' = pushed
        /\ nextId' = nextId + (Len(pushed) - Len(snapshots))
        /\ lastOp' = NoOp
        /\ UNCHANGED <<assets, trades, deposits, moneyVars, viewDate,
                       deleteConfirmAssetId>>

\* handleDeleteAsset: the asset with its snapshots and trades
handleDeleteAsset(assetId) ==
    /\ assetId \in assetIds
    /\ assets' = SelectSeq(assets, LAMBDA a : a.id # assetId)
    /\ snapshots' = SelectSeq(snapshots, LAMBDA s : s.assetId # assetId)
    /\ trades' = SelectSeq(trades, LAMBDA t : t.assetId # assetId)
    /\ lastOp' = Op("handleDeleteAsset", assetId, 0, NoDate, 0)
    /\ UNCHANGED <<deposits, moneyVars, viewDate, deleteConfirmAssetId, now, nextId>>

----------------------------------------------------------------------------
(* The investments dataset under its handlers *)

\* the handlers of the Investments screen that records deposits
NextInvestments ==
    \/ \E h \in {0} \cup {a \in Amounts : a > 0}, p \in {0} \cup Prices, d \in InvestDates :
           handleAddAsset(h, p, d)
    \/ \E a \in assetIds, amt \in Amounts, d \in InvestDates : handleDeposit(a, amt, d)
    \/ \E a \in assetIds, p \in Prices, d \in InvestDates : handleSavePrice(a, p, d)
    \/ \E id \in 1..MaxId, p \in Prices, d \in InvestDates : handleUpdateSnapshot(id, d, p)
    \/ \E id \in 1..MaxId : handleDeleteSnap(id)
    \/ \E id \in 1..MaxId, amt \in Amounts, d \in InvestDates : handleUpdateDeposit(id, d, amt)
    \/ \E id \in 1..MaxId : handleDeleteDeposit(id)
    \/ \E a \in assetIds : requestDeleteAsset(a)
    \/ confirmDeleteAsset

SpecInvestments == Init /\ [][NextInvestments]_vars

\* the same dataset under the handlers of both Investments screens
Next ==
    \/ NextInvestments
    \/ \E priceOf \in [assetIds -> {0} \cup Prices], d \in InvestDates :
           handleUpdatePrices(priceOf, d)
    \/ \E a \in assetIds : handleDeleteAsset(a)

Spec == Init /\ [][Next]_vars

----------------------------------------------------------------------------
(* Properties of the investments dataset *)

RECURSIVE SumOver(_, _)
SumOver(f, S) ==
    IF S = {} THEN 0
    ELSE LET x == CHOOSE y \in S : TRUE IN f[x] + SumOver(f, S \ {x})

snapshotsOfAsset(assetId) == {j \in 1..Len(snapshots) : snapshots[j].assetId = assetId}

depositsOfAsset(assetId) == {j \in 1..Len(deposits) : deposits[j].assetId = assetId}

\* s comes no later than t in the (date, createdAt) order
NoLater(s, t) ==
    \/ getTime(s.date) < getTime(t.date)
    \/ getTime(s.date) = getTime(t.date) /\ OrZero(s.createdAt) <= OrZero(t.createdAt)

ViewMonths == {<<2024, 0>>, <<2024, 1>>}

\* C1: an asset without snapshots is valued at the signed sum of its deposits,
\* an asset with snapshots at the price of a snapshot that no other snapshot of
\* the asset follows in the (date, createdAt) order, whatever its deposits are.
C1_ValuationFallback ==
    \A i \in 1..Len(assets) :
        LET e == portfolio[i]
            own == snapshotsOfAsset(assets[i].id)
            invested == SumOver([j \in 1..Len(deposits) |-> deposits[j].amount],
                                depositsOfAsset(assets[i].id))
        IN  /\ e.investedAmount = invested
            /\ e.hasPrice = (own # {})
            /\ own = {} => e.currentValue = invested
            /\ own # {} =>
                   /\ e.currentValue = e.latestPrice
                   /\ \E j \in own :
                          /\ snapshots[j].price = e.currentValue
                          /\ \A k \in own : NoLater(snapshots[k], snapshots[j])

\* an asset with a market price and a non-zero cost basis that differs from it
C1_Witness ==
    \E i \in 1..Len(assets) :
        /\ portfolio[i].hasPrice
        /\ portfolio[i].investedAmount # 0
        /\ portfolio[i].investedAmount # portfolio[i].latestPrice
        /\ depositsOfAsset(assets[i].id) # {}

\* C2: in a month whose last day is on or after the date of every deposit and
\* snapshot, the end-of-month value equals the live total value.
C2_EndOfMonthReplaysLive ==
    \A ym \in ViewMonths :
        LET eom == endOfMonthStr(ym[1], ym[2])
        IN  (/\ \A j \in 1..Len(deposits) : StrLeq(deposits[j].date, eom)
             /\ \A j \in 1..Len(snapshots) : StrLeq(snapshots[j].date, eom))
            => endOfMonthValue(ym[1], ym[2]) = totalCurrentValue

NoDuplicatePair(snaps) ==
    \A i, j \in 1..Len(snaps) :
        (snaps[i].assetId = snaps[j].assetId /\ snaps[i].date = snaps[j].date) => i = j

\* C3: an upsert on a list without duplicate (assetId, date) leaves a list
\* without duplicates that holds exactly one snapshot for the upserted pair,
\* with the price of the call; every other snapshot is kept as it was; when the
\* pair was present its snapshot keeps its id and position and the length is
\* unchanged, otherwise the list grows by the one new snapshot.
C3_UpsertStep ==
    (lastOp'.op = "handleUpsertSnapshot" /\ NoDuplicatePair(snapshots)) =>
        LET a == lastOp'.assetId
            d == lastOp'.date
            old == {i \in 1..Len(snapshots) :
                        snapshots[i].assetId = a /\ snapshots[i].date = d}
            new == {i \in 1..Len(snapshots') :
                        snapshots'[i].assetId = a /\ snapshots'[i].date = d}
        IN  /\ NoDuplicatePair(snapshots')
            /\ Cardinality(new) = 1
            /\ \A i \in new : snapshots'[i].price = lastOp'.price
            /\ \A i \in 1..Len(snapshots) : i \notin old => snapshots'[i] = snapshots[i]
            /\ old # {} =>
                   /\ Len(snapshots') = Len(snapshots)
                   /\ new = old
                   /\ \A i \in old : snapshots'[i].id = snapshots[i].id
            /\ old = {} => Len(snapshots') = Len(snapshots) + 1

C3_UpsertIdempotent == [][C3_UpsertStep]_vars

\* an upsert has just replaced the snapshot of its pair in a duplicate-free list
C3_Witness ==
    /\ lastOp.op = "handleUpsertSnapshot"
    /\ lastOp.id # 0
    /\ NoDuplicatePair(snapshots)
    /\ Len(snapshots) >= 2

\* C4: right after an upsert for a live asset at a date no snapshot of the
\* asset is later than, the asset's latestPrice and currentValue are the
\* upserted price.
C4_LastWriteWins ==
    (/\ lastOp.op = "handleUpsertSnapshot"
     /\ \A j \in snapshotsOfAsset(lastOp.assetId) :
            getTime(snapshots[j].date) <= getTime(lastOp.date))
    => \A i \in 1..Len(assets) :
           assets[i].id = lastOp.assetId =>
               /\ portfolio[i].latestPrice = lastOp.price
               /\ portfolio[i].currentValue = lastOp.price

\* the upsert replaced a snapshot while another snapshot of the asset, with
\* another price, carries the same date
C4_Witness ==
    /\ lastOp.op = "handleUpsertSnapshot"
    /\ lastOp.id # 0
    /\ lastOp.assetId \in assetIds
    /\ \A j \in snapshotsOfAsset(lastOp.assetId) :
           getTime(snapshots[j].date) <= getTime(lastOp.date)
    /\ \E j \in snapshotsOfAsset(lastOp.assetId) :
           /\ snapshots[j].id # lastOp.id
           /\ snapshots[j].date = lastOp.date
           /\ snapshots[j].price # lastOp.price

\* C5: every deposit, snapshot and trade refers to an asset that is present.
C5_ReferentialIntegrity ==
    /\ \A j \in 1..Len(deposits) : deposits[j].assetId \in assetIds
    /\ \A j \in 1..Len(snapshots) : snapshots[j].assetId \in assetIds
    /\ \A j \in 1..Len(trades) : trades[j].assetId \in assetIds

----------------------------------------------------------------------------
(* A stored document loaded by the StoreProvider, then edited in the detail  *)
(* view: one asset and any list of its snapshots, createdAt being optional   *)

MaxLoaded == 3

CreatedAts == {UNDEFINED, 1, 2}

LoadedSnapshotLists ==
    UNION {{[i \in 1..n |-> [id |-> i, assetId |-> 1, date |-> f[i][1],
                             price |-> f[i][2], createdAt |-> f[i][3]]] :
               f \in [1..n -> InvestDates \X Prices \X CreatedAts]} :
           n \in 0..MaxLoaded}

InitLoaded ==
    /\ assets = <<[id |-> 1]>>
    /\ trades = <<>>
    /\ deposits = <<>>
    /\ snapshots \in LoadedSnapshotLists
    /\ expenses = <<>>
    /\ savingsBuckets = <<>>
    /\ savingsTransactions = <<>>
    /\ emergencyTransactions = <<>>
    /\ healthLogs = <<>>
    /\ settings = INITIAL_DATA_settings
    /\ exported = <<>>
    /\ timezoneOffset = 0
    /\ notArrays = {}
    /\ storeMounted
    /\ categoriesInitial
    /\ viewDate = thisMonth
    /\ expensesViewDate = thisMonth
    /\ deleteConfirmAssetId = 0
    /\ now = 2
    /\ nextId = Len(snapshots) + 2
    /\ lastOp = NoOp

NextLoaded ==
    \/ \E id \in 1..MaxLoaded, p \in Prices, d \in InvestDates : handleUpdateSnapshot(id, d, p)
    \/ \E id \in 1..MaxLoaded : handleDeleteSnap(id)

SpecLoaded == InitLoaded /\ [][NextLoaded]_vars

\* the lists that hold the elements of s in another order
Reorderings(s) ==
    {[i \in 1..Len(s) |-> s[f[i]]] : f \in Permutations(1..Len(s))}

\* no two snapshots of one asset agree on both date and createdAt || 0
DistinctSortKeys(snaps) ==
    \A i, j \in 1..Len(snaps) :
        (/\ snaps[i].assetId = snaps[j].assetId
         /\ getTime(snaps[i].date) = getTime(snaps[j].date)
         /\ OrZero(snaps[i].createdAt) = OrZero(snaps[j].createdAt)) => i = j

\* the asset's startPrice and latestPrice over snaps are those of entry
SamePrices(asset, snaps, entry) ==
    LET other == portfolioEntry(asset, deposits, snaps)
    IN  other.startPrice = entry.startPrice /\ other.latestPrice = entry.latestPrice

\* s comes before t in the (date, createdAt) order
Earlier(s, t) == NoLater(s, t) /\ ~NoLater(t, s)

\* C6 as claimed: startPrice and latestPrice are the same for every order in
\* which the list stores the same snapshots, ties on (date, createdAt) included.
C6_AnyPermutation ==
    \A i \in 1..Len(assets) :
        LET e == portfolio[i]
        IN  \A perm \in Reorderings(snapshots) : SamePrices(assets[i], perm, e)

\* C6 as amended: startPrice and latestPrice are the prices of the first and
\* the last snapshot in the (date, createdAt) order, a tie on both being
\* ordered by the position in the list; they are the same for every order of
\* the list when no two snapshots of the asset tie on both.
C6_PermutationDistinctKeys ==
    \A i \in 1..Len(assets) :
        LET own == snapshotsOfAsset(assets[i].id)
            e == portfolio[i]
        IN  /\ own # {} =>
                /\ \E j \in own :
                       /\ snapshots[j].price = e.latestPrice
                       /\ \A k \in own :
                              \/ Earlier(snapshots[k], snapshots[j])
                              \/ (NoLater(snapshots[k], snapshots[j]) /\ k <= j)
                /\ \E j \in own :
                       /\ snapshots[j].price = e.startPrice
                       /\ \A k \in own :
                              \/ Earlier(snapshots[j], snapshots[k])
                              \/ (NoLater(snapshots[j], snapshots[k]) /\ j <= k)
            /\ DistinctSortKeys(snapshots) =>
                   \A perm \in Reorderings(snapshots) : SamePrices(assets[i], perm, e)

\* two snapshots share a date, differ in createdAt and in price, and the list
\* stores the one created later first
C6_Witness ==
    /\ DistinctSortKeys(snapshots)
    /\ \E i, j \in 1..Len(snapshots) :
           /\ i < j
           /\ snapshots[i].assetId = snapshots[j].assetId
           /\ snapshots[i].assetId \in assetIds
           /\ snapshots[i].date = snapshots[j].date
           /\ OrZero(snapshots[i].createdAt) > OrZero(snapshots[j].createdAt)
           /\ snapshots[i].price # snapshots[j].price
           /\ portfolio[1].latestPrice = snapshots[i].price

----------------------------------------------------------------------------
(* Money screen: savings buckets and the emergency fund *)

MaxBuckets == 2
MaxTx == 3
MaxTxId == 4

TxAmounts == {0 - 1, 2, MaxSafe - 1}
TxTypes == {"Add", "Withdraw"}
TxDates == {<<2024, 1, 31>>}
BucketTargets == {UNDEFINED, 10}

\* a withdrawal that subtracts the balance from the amount
balanceStepSwapped(acc, t) ==
    IF t.type = "Add" THEN fadd(acc, t.amount) ELSE fsub(t.amount, acc)

\* the reducer (acc, t) => t.type === 'Add' ? acc + t.amount : acc - t.amount
balanceStep(acc, t) ==
    IF t.type = "Add" THEN fadd(acc, t.amount) ELSE fsub(acc, t.amount)

\* txs.reduce(balanceStep, acc)
RECURSIVE reduceBalance(_, _)
reduceBalance(txs, acc) ==
    IF txs = <<>> THEN acc
    ELSE reduceBalance(Tail(txs), balanceStep(acc, Head(txs)))

bucketTransactions(bucketId) ==
    SelectSeq(savingsTransactions, LAMBDA t : t.bucketId = bucketId)

\* SavingsView.bucketBalances
bucketBalances ==
    [i \in 1..Len(savingsBuckets) |->
        [id |-> savingsBuckets[i].id,
         target |-> savingsBuckets[i].target,
         balance |-> reduceBalance(bucketTransactions(savingsBuckets[i].id), 0)]]

totalSavings == SumSeq([i \in 1..Len(savingsBuckets) |-> bucketBalances[i].balance])

\* EmergencyView.balance
emergencyBalance == reduceBalance(emergencyTransactions, 0)

\* HomeScreen.stats
savingsRON ==
    SumSeq([i \in 1..Len(savingsBuckets) |->
               reduceBalance(SelectSeq(savingsTransactions,
                                 LAMBDA t : t.bucketId = savingsBuckets[i].id), 0)])

emergencyRON == reduceBalance(emergencyTransactions, 0)

txCount == Len(savingsTransactions) + Len(emergencyTransactions)

ledgerUnchanged == <<dataVars, expenses, expensesViewDate, healthVars, sessionVars,
                     viewDate,
                     deleteConfirmAssetId, now, lastOp>>

\* SavingsView.handleAddBucket
handleAddBucket(target) ==
    /\ Len(savingsBuckets) < MaxBuckets
    /\ nextId <= MaxTxId
    /\ savingsBuckets' = Append(savingsBuckets, [id |-> nextId,
                                                  target |-> NumberOrUndefined(target)])
    /\ nextId' = nextId + 1
    /\ UNCHANGED <<savingsTransactions, emergencyTransactions, ledgerUnchanged>>

\* BucketDetailView.handleSaveTx, formMode = 'add'
handleSaveBucketTxAdd(bucketId, amount, date, type) ==
    /\ \E i \in 1..Len(savingsBuckets) : savingsBuckets[i].id = bucketId
    /\ txCount < MaxTx
    /\ nextId <= MaxTxId
    /\ savingsTransactions' =
           <<[id |-> nextId, bucketId |-> bucketId, amount |-> amount,
              date |-> date, type |-> type]>> \o savingsTransactions
    /\ nextId' = nextId + 1
    /\ UNCHANGED <<savingsBuckets, emergencyTransactions, ledgerUnchanged>>

\* BucketDetailView.handleSaveTx, formMode = 'edit'
handleSaveBucketTxEdit(id, amount, date, type) ==
    /\ \E i \in 1..Len(savingsTransactions) : savingsTransactions[i].id = id
    /\ savingsTransactions' =
           [i \in 1..Len(savingsTransactions) |->
               IF savingsTransactions[i].id = id
               THEN [savingsTransactions[i] EXCEPT
                        !.amount = amount, !.date = date, !.type = type]
               ELSE savingsTransactions[i]]
    /\ savingsTransactions' # savingsTransactions
    /\ UNCHANGED <<savingsBuckets, emergencyTransactions, nextId, ledgerUnchanged>>

\* BucketDetailView.handleDeleteTx
handleDeleteBucketTx(id) ==
    /\ \E i \in 1..Len(savingsTransactions) : savingsTransactions[i].id = id
    /\ savingsTransactions' = SelectSeq(savingsTransactions, LAMBDA t : t.id # id)
    /\ UNCHANGED <<savingsBuckets, emergencyTransactions, nextId, ledgerUnchanged>>

\* EmergencyView.handleSaveTx, formMode = 'add'
handleSaveEmergencyTxAdd(amount, date, type) ==
    /\ txCount < MaxTx
    /\ nextId <= MaxTxId
    /\ emergencyTransactions' =
           <<[id |-> nextId, amount |-> amount, date |-> date, type |-> type]>>
               \o emergencyTransactions
    /\ nextId' = nextId + 1
    /\ UNCHANGED <<savingsBuckets, savingsTransactions, ledgerUnchanged>>

\* EmergencyView.handleSaveTx, formMode = 'edit'
handleSaveEmergencyTxEdit(id, amount, date, type) ==
    /\ \E i \in 1..Len(emergencyTransactions) : emergencyTransactions[i].id = id
    /\ emergencyTransactions' =
           [i \in 1..Len(emergencyTransactions) |->
               IF emergencyTransactions[i].id = id
               THEN [emergencyTransactions[i] EXCEPT
                        !.amount = amount, !.date = date, !.type = type]
               ELSE emergencyTransactions[i]]
    /\ emergencyTransactions' # emergencyTransactions
    /\ UNCHANGED <<savingsBuckets, savingsTransactions, nextId, ledgerUnchanged>>

\* EmergencyView.handleDeleteTx
handleDeleteEmergencyTx(id) ==
    /\ \E i \in 1..Len(emergencyTransactions) : emergencyTransactions[i].id = id
    /\ emergencyTransactions' = SelectSeq(emergencyTransactions, LAMBDA t : t.id # id)
    /\ UNCHANGED <<savingsBuckets, savingsTransactions, nextId, ledgerUnchanged>>

NextLedger ==
    \/ \E target \in BucketTargets : handleAddBucket(target)
    \/ \E b \in 1..MaxTxId, amt \in TxAmounts, d \in TxDates, ty \in TxTypes :
           handleSaveBucketTxAdd(b, amt, d, ty)
    \/ \E id \in 1..MaxTxId, amt \in TxAmounts, d \in TxDates, ty \in TxTypes :
           handleSaveBucketTxEdit(id, amt, d, ty)
    \/ \E id \in 1..MaxTxId : handleDeleteBucketTx(id)
    \/ \E amt \in TxAmounts, d \in TxDates, ty \in TxTypes :
           handleSaveEmergencyTxAdd(amt, d, ty)
    \/ \E id \in 1..MaxTxId, amt \in TxAmounts, d \in TxDates, ty \in TxTypes :
           handleSaveEmergencyTxEdit(id, amt, d, ty)
    \/ \E id \in 1..MaxTxId : handleDeleteEmergencyTx(id)

SpecLedger == Init /\ [][NextLedger]_vars

\* the ledgers on screen: the emergency fund and each bucket's transactions
ledgers ==
    {emergencyTransactions}
        \cup {bucketTransactions(savingsBuckets[i].id) : i \in 1..Len(savingsBuckets)}

\* sum of the amounts of one type, added in list order
sumOfType(txs, type) ==
    LET own == SelectSeq(txs, LAMBDA t : t.type = type)
    IN  reduceSum([i \in 1..Len(own) |-> own[i].amount], 0)

\* every partial sum of the amounts, in any order, is a value of the number type
exactRange(txs) ==
    SumOver([i \in 1..Len(txs) |-> Abs(txs[i].amount)], 1..Len(txs)) <= MaxSafe

balanceLaws(txs) ==
    /\ reduceBalance(txs, 0) = fsub(sumOfType(txs, "Add"), sumOfType(txs, "Withdraw"))
    /\ \A k \in 0..Len(txs) :
           reduceBalance(txs, 0) =
               fadd(reduceBalance(SubSeq(txs, 1, k), 0),
                    reduceBalance(SubSeq(txs, k + 1, Len(txs)), 0))
    /\ \A r \in Reorderings(txs) : reduceBalance(r, 0) = reduceBalance(txs, 0)

\* C7 as stated: the balance of every ledger is the sum of its Add amounts
\* minus the sum of its Withdraw amounts, splits at any point k into the
\* balance of the first k transactions plus the balance of the rest, and is
\* the same for every reordering of the list.
C7_BalanceAnyList == \A txs \in ledgers : balanceLaws(txs)

\* C7, amended: the three laws hold for every ledger whose amounts stay in
\* the range where the number type is exact, and there the Home screen's
\* savings and emergency figures are those same balances.
C7_BalanceExactRange ==
    /\ \A txs \in ledgers : exactRange(txs) => balanceLaws(txs)
    /\ emergencyRON = emergencyBalance
    /\ savingsRON = totalSavings
    /\ \A i \in 1..Len(savingsBuckets) :
           bucketBalances[i].balance =
               reduceBalance(bucketTransactions(savingsBuckets[i].id), 0)

\* a bucket and the emergency fund both hold transactions, the bucket an Add
\* and a Withdraw, all within the exact range
C7_Witness ==
    /\ emergencyTransactions # <<>>
    /\ exactRange(emergencyTransactions)
    /\ \E i \in 1..Len(savingsBuckets) :
           LET txs == bucketTransactions(savingsBuckets[i].id)
           IN  /\ exactRange(txs)
               /\ \E a, b \in 1..Len(txs) :
                      /\ txs[a].type = "Add"
                      /\ txs[b].type = "Withdraw"
                      /\ txs[a].amount # txs[b].amount

----------------------------------------------------------------------------
(* Money flow by month: InvestmentsScreen.activityStats, ExpensesView *)

MaxFlows == 3
MaxBack == 12

FlowDates == {<<2023, 12, 31>>, <<2024, 1, 1>>}
FlowAmounts == {0 - 1, 2, MaxSafe - 1}
ExpenseAmounts == {0 - 4, 5}

\* a string of the display: an optional sign, decimal digits or a word, a suffix
NoDigits == 0 - 1
Str(sign, digits, text, suffix) ==
    [sign |-> sign, digits |-> digits, text |-> text, suffix |-> suffix]

\* (num / den).toFixed(0): the nearest integer, a tie to the larger magnitude,
\* '-' in front of every negative value
toFixed0(num, den) ==
    LET negative == (num < 0 /\ den > 0) \/ (num > 0 /\ den < 0)
        a == Abs(num)
        b == Abs(den)
    IN  Str(IF negative THEN "-" ELSE "", (2 * a + b) \div (2 * b), "", "")

\* prevMonth / prevYear of a target month
prevMonthOf(targetYear, targetMonth) ==
    IF targetMonth - 1 < 0 THEN <<targetYear - 1, 11>>
    ELSE <<targetYear, targetMonth - 1>>

\* while (tm < 0) { tm += 12; ty -= 1; } that forgets the year
RECURSIVE wrapMonthKeepYear(_, _)
wrapMonthKeepYear(ty, tm) ==
    IF tm < 0 THEN wrapMonthKeepYear(ty, tm + 12) ELSE <<ty, tm>>

\* while (tm < 0) { tm += 12; ty -= 1; }
RECURSIVE wrapMonth(_, _)
wrapMonth(ty, tm) ==
    IF tm < 0 THEN wrapMonth(ty - 1, tm + 12) ELSE <<ty, tm>>

\* <<ty, tm>> of step i of the trend loop
trendPeriod(targetYear, targetMonth, i) == wrapMonth(targetYear, targetMonth - i)

depositsOfMonth(y, m) == SelectSeq(deposits, LAMBDA d : matchesMonth(d.date, y, m))

\* filter(d => d.amount > 0).reduce((a, b) => a + b.amount, 0)
totalDepositedOf(deps) ==
    sumAmounts(SelectSeq(deps, LAMBDA d : d.amount > 0))

\* filter(d => d.amount < 0).reduce((a, b) => a + Math.abs(b.amount), 0)
totalWithdrawnOf(deps) ==
    LET out == SelectSeq(deps, LAMBDA d : d.amount < 0)
    IN  reduceSum([i \in 1..Len(out) |-> Abs(out[i].amount)], 0)

netFlowOf(deps) == fsub(totalDepositedOf(deps), totalWithdrawnOf(deps))

\* a month's trend value that adds the magnitudes
monthNetAbs(deps) == reduceSum([i \in 1..Len(deps) |-> Abs(deps[i].amount)], 0)

\* mNet: mDeps.reduce((acc, d) => acc + d.amount, 0)
monthNet(deps) == sumAmounts(deps)

\* netFlowChangePercent
netFlowChangePercentOf(cur, prev) ==
    IF prev # 0 THEN toFixed0(fsub(cur, prev) * 100, Abs(prev))
    ELSE IF cur # 0 THEN Str("", NoDigits, "New", "") ELSE Str("", 0, "", "")

\* a comparison that keeps the smaller value
MaxKeepsSmaller(a, b) == IF a > b THEN b ELSE a

Max(a, b) == IF a > b THEN a ELSE b

trendOf(targetYear, targetMonth) ==
    [k \in 1..4 |->
        LET i == 4 - k
            period == trendPeriod(targetYear, targetMonth, i)
        IN  [label |-> period[2],
             value |-> monthNet(depositsOfMonth(period[1], period[2])),
             isCurrent |-> i = 0]]

activityStats ==
    LET targetYear == viewDate[1]
        targetMonth == viewDate[2]
        currentMonthDeposits == depositsOfMonth(targetYear, targetMonth)
        netFlow == netFlowOf(currentMonthDeposits)
        prev == prevMonthOf(targetYear, targetMonth)
        prevNetFlow == netFlowOf(depositsOfMonth(prev[1], prev[2]))
        trend == trendOf(targetYear, targetMonth)
    IN  [totalDeposited |-> totalDepositedOf(currentMonthDeposits),
         totalWithdrawn |-> totalWithdrawnOf(currentMonthDeposits),
         netFlow |-> netFlow,
         endOfMonthValue |-> endOfMonthValue(targetYear, targetMonth),
         prevNetFlow |-> prevNetFlow,
         netFlowDiff |-> fsub(netFlow, prevNetFlow),
         netFlowChangePercent |-> netFlowChangePercentOf(netFlow, prevNetFlow),
         trend |-> trend,
         maxTrend |-> Max(Max(Abs(trend[1].value), Abs(trend[2].value)),
                          Max(Max(Abs(trend[3].value), Abs(trend[4].value)), 0))]

expensesOfMonth(y, m) == SelectSeq(expenses, LAMBDA ex : matchesMonth(ex.date, y, m))

\* reduce((acc, e) => acc + e.amount, 0)
expenseTotal(exps) == sumAmounts(exps)

thisMonthTotal == expenseTotal(expensesOfMonth(expensesViewDate[1], expensesViewDate[2]))

\* percentStr
percentStrOf(cur, prevTotal) ==
    IF prevTotal = 0
    THEN (IF cur > 0 THEN Str("", NoDigits, "New spend", "") ELSE Str("", 0, "", "%"))
    ELSE LET diff == fsub(cur, prevTotal)
             pPositive == (diff > 0 /\ prevTotal > 0) \/ (diff < 0 /\ prevTotal < 0)
             fixed == toFixed0(diff * 100, prevTotal)
         IN  Str(IF pPositive THEN "+" ELSE fixed.sign, fixed.digits, "", "%")

expenseTrendOf(targetYear, targetMonth) ==
    [k \in 1..4 |->
        LET i == 4 - k
            period == trendPeriod(targetYear, targetMonth, i)
        IN  [label |-> period[2],
             total |-> expenseTotal(expensesOfMonth(period[1], period[2])),
             isCurrent |-> i = 0]]

comparison ==
    LET targetYear == expensesViewDate[1]
        targetMonth == expensesViewDate[2]
        prev == prevMonthOf(targetYear, targetMonth)
        prevTotal == expenseTotal(expensesOfMonth(prev[1], prev[2]))
        trend == expenseTrendOf(targetYear, targetMonth)
    IN  [prevTotal |-> prevTotal,
         diff |-> fsub(thisMonthTotal, prevTotal),
         percentStr |-> percentStrOf(thisMonthTotal, prevTotal),
         trend |-> trend,
         maxTrend |-> Max(Max(trend[1].total, trend[2].total),
                          Max(Max(trend[3].total, trend[4].total), 1))]

----------------------------------------------------------------------------
(* Month navigation and the expense form *)

\* Date.getMonth() + 12 * Date.getFullYear()
monthIndex(d) == d[1] * 12 + d[2]

\* a shift that wraps the month and leaves the year
shiftMonthKeepYear(d, delta) == <<d[1], (d[2] + delta) % 12>>

\* new Date(y, m, 1) after setMonth(m + delta): the Date normalises the month
shiftMonth(d, delta) ==
    LET n == monthIndex(d) + delta IN <<n \div 12, n % 12>>

\* InvestmentsScreen.changeMonth; the forward button is disabled in the
\* current month, and the screen is mounted, so ExpensesView is not
changeMonth(delta) ==
    /\ expensesViewDate = thisMonth
    /\ delta = 1 => viewDate # thisMonth
    /\ delta = 0 - 1 => monthIndex(thisMonth) - monthIndex(viewDate) < MaxBack
    /\ viewDate' = shiftMonth(viewDate, delta)
    /\ lastOp' = NoOp
    /\ UNCHANGED <<dataVars, moneyVars, deleteConfirmAssetId, now, nextId>>

\* InvestmentsScreen.jumpToToday, offered outside the current month
jumpToToday ==
    /\ viewDate # thisMonth
    /\ viewDate' = thisMonth
    /\ lastOp' = NoOp
    /\ UNCHANGED <<dataVars, moneyVars, deleteConfirmAssetId, now, nextId>>

expensesUnchanged ==
    <<dataVars, savingsBuckets, savingsTransactions, emergencyTransactions,
      healthVars, sessionVars, viewDate, deleteConfirmAssetId, now>>

\* ExpensesView.changeMonth
expensesChangeMonth(delta) ==
    /\ viewDate = thisMonth
    /\ delta = 1 => expensesViewDate # thisMonth
    /\ delta = 0 - 1 => monthIndex(thisMonth) - monthIndex(expensesViewDate) < MaxBack
    /\ expensesViewDate' = shiftMonth(expensesViewDate, delta)
    /\ lastOp' = NoOp
    /\ UNCHANGED <<expenses, nextId, expensesUnchanged>>

\* ExpensesView.jumpToToday
expensesJumpToToday ==
    /\ expensesViewDate # thisMonth
    /\ expensesViewDate' = thisMonth
    /\ lastOp' = NoOp
    /\ UNCHANGED <<expenses, nextId, expensesUnchanged>>

flowCount == Len(deposits) + Len(expenses)

\* ExpensesView.handleSave, no expense being edited: the amount is whatever
\* number the form holds
handleSave(amount, date) ==
    /\ flowCount < MaxFlows
    /\ expenses' = <<[id |-> nextId, amount |-> amount, date |-> date]>> \o expenses
    /\ nextId' = nextId + 1
    /\ lastOp' = NoOp
    /\ UNCHANGED <<expensesViewDate, expensesUnchanged>>

\* a stored dataset: one asset and its deposits
LoadedDepositLists ==
    UNION {{[i \in 1..n |-> [id |-> i + 1, assetId |-> 1, date |-> f[i][1],
                             amount |-> f[i][2]]] :
               f \in [1..n -> FlowDates \X FlowAmounts]} :
           n \in 0..MaxFlows}

InitActivity ==
    /\ assets = <<[id |-> 1]>>
    /\ trades = <<>>
    /\ deposits \in LoadedDepositLists
    /\ snapshots = <<>>
    /\ expenses = <<>>
    /\ savingsBuckets = <<>>
    /\ savingsTransactions = <<>>
    /\ emergencyTransactions = <<>>
    /\ healthLogs = <<>>
    /\ settings = INITIAL_DATA_settings
    /\ exported = <<>>
    /\ timezoneOffset = 0
    /\ notArrays = {}
    /\ storeMounted
    /\ categoriesInitial
    /\ viewDate = thisMonth
    /\ expensesViewDate = thisMonth
    /\ deleteConfirmAssetId = 0
    /\ now = 0
    /\ nextId = Len(deposits) + 2
    /\ lastOp = NoOp

NextActivity ==
    \/ \E delta \in {0 - 1, 1} : changeMonth(delta)
    \/ jumpToToday
    \/ \E delta \in {0 - 1, 1} : expensesChangeMonth(delta)
    \/ expensesJumpToToday
    \/ \E amt \in ExpenseAmounts, d \in FlowDates : handleSave(amt, d)

SpecActivity == InitActivity /\ [][NextActivity]_vars

----------------------------------------------------------------------------
(* Month-over-month comparison, net flow and trend *)

\* the number a percent string shows
percentValue(str) == IF str.sign = "-" THEN 0 - str.digits ELSE str.digits

\* diff / |previous| * 100 to the nearest integer, previous # 0
roundedPercent(diff, previous) ==
    LET n == (200 * Abs(diff) + Abs(previous)) \div (2 * Abs(previous))
    IN  IF diff < 0 THEN 0 - n ELSE n

\* the comparison a screen shows agrees with (current, previous)
comparisonLaw(current, previous, diff, percent) ==
    /\ diff = fsub(current, previous)
    /\ previous # 0 =>
           /\ percent.text = ""
           /\ percentValue(percent) = roundedPercent(diff, previous)
    /\ (previous = 0 /\ current # 0) => percent.text # ""
    /\ (previous = 0 /\ current = 0) => (percent.text = "" /\ percent.digits = 0)

\* the investments half of C8: the net-flow comparison of the month on screen
InvestmentsComparisonLaw ==
    LET stats == activityStats
    IN  comparisonLaw(stats.netFlow, stats.prevNetFlow,
                      stats.netFlowDiff, stats.netFlowChangePercent)

\* the expenses half of C8: the expense comparison of the month on screen
ExpensesComparisonLaw ==
    LET shown == comparison
    IN  comparisonLaw(thisMonthTotal, shown.prevTotal, shown.diff, shown.percentStr)

\* C8 as stated: on both screens diff = current - previous; with previous # 0
\* the percent is diff / |previous| * 100; with previous = 0 it is a sentinel
\* other than 0% when current # 0 and 0% when current = 0.
C8_MonthOverMonth == InvestmentsComparisonLaw /\ ExpensesComparisonLaw

\* the deposits of the month on screen
currentMonthDeposits == depositsOfMonth(viewDate[1], viewDate[2])

\* C9 as stated: netFlow is the sum of the positive amounts of the month minus
\* the sum of the magnitudes of its negative amounts, and the trend entry
\* flagged as current carries that netFlow.
C9_NetFlowIsCurrentTrend ==
    LET stats == activityStats
    IN  /\ stats.netFlow =
               fsub(totalDepositedOf(currentMonthDeposits),
                    totalWithdrawnOf(currentMonthDeposits))
        /\ \A k \in 1..4 :
               stats.trend[k].isCurrent => stats.trend[k].value = stats.netFlow

\* C9, amended: when the amounts of the month stay in the range where the
\* number type is exact, netFlow is the sum of the positive amounts minus the
\* sum of the magnitudes of the negative ones, and the entry flagged as
\* current, which exists, carries that netFlow.
C9_NetFlowExactRange ==
    LET stats == activityStats
        idx == 1..Len(currentMonthDeposits)
        amt == [i \in idx |-> currentMonthDeposits[i].amount]
        mag == [i \in idx |-> Abs(amt[i])]
    IN  /\ \E k \in 1..4 : stats.trend[k].isCurrent
        /\ exactRange(currentMonthDeposits) =>
               /\ stats.netFlow =
                      SumOver(amt, {i \in idx : amt[i] > 0})
                          - SumOver(mag, {i \in idx : amt[i] < 0})
               /\ \A k \in 1..4 :
                      stats.trend[k].isCurrent => stats.trend[k].value = stats.netFlow

\* the month on screen holds a deposit and a withdrawal within the exact range
\* and another month holds a deposit
C9_Witness ==
    /\ exactRange(currentMonthDeposits)
    /\ \E i, j \in 1..Len(currentMonthDeposits) :
           currentMonthDeposits[i].amount > 0 /\ currentMonthDeposits[j].amount < 0
    /\ Len(currentMonthDeposits) < Len(deposits)
    /\ viewDate # thisMonth

\* the four periods that end at an anchor, by calendar arithmetic
periodsEndingAt(anchor) ==
    [k \in 1..4 |-> LET n == monthIndex(anchor) - (4 - k) IN <<n \div 12, n % 12>>]

\* C10: for every anchor the trend of either screen has exactly 4 entries, for
\* the 4 consecutive calendar months that end at the anchor month, in
\* chronological order; every month index is in 0..11, the year one less where
\* the month wraps below January; only the last entry is flagged as current.
C10_TrendPeriods ==
    LET flows == activityStats.trend
        spend == comparison.trend
    IN  /\ viewDate[2] \in 0..11 /\ expensesViewDate[2] \in 0..11
        /\ Len(flows) = 4 /\ Len(spend) = 4
        /\ \A k \in 1..4 :
               LET p == periodsEndingAt(viewDate)[k]
                   q == periodsEndingAt(expensesViewDate)[k]
               IN  /\ trendPeriod(viewDate[1], viewDate[2], 4 - k) = p
                   /\ flows[k].label = p[2]
                   /\ flows[k].label \in 0..11
                   /\ flows[k].value = monthNet(depositsOfMonth(p[1], p[2]))
                   /\ flows[k].isCurrent = (k = 4)
                   /\ trendPeriod(expensesViewDate[1], expensesViewDate[2], 4 - k) = q
                   /\ spend[k].label = q[2]
                   /\ spend[k].label \in 0..11
                   /\ spend[k].total = expenseTotal(expensesOfMonth(q[1], q[2]))
                   /\ spend[k].isCurrent = (k = 4)

\* a January anchor on the Investments screen with a deposit in the December
\* before it, and an expense in that December within the expense trend
C10_Witness ==
    /\ viewDate[2] = 0
    /\ \E i \in 1..Len(deposits) : matchesMonth(deposits[i].date, viewDate[1] - 1, 11)
    /\ \E i \in 1..Len(expenses) :
           matchesMonth(expenses[i].date, expensesViewDate[1] - 1, 11)

----------------------------------------------------------------------------
(* The scale of the trend charts *)

\* m is the largest element of the non-empty set S
IsMaximum(m, S) == m \in S /\ \A x \in S : x <= m

----------------------------------------------------------------------------
(* Top assets by net deposit of the month *)

\* .slice(0, 5)
TopLimit == 5

MaxMoverAssets == 6

MoverAmounts == {0 - 1, 1}

\* the keys of assetMap in the order forEach first assigns them; generateId
\* yields base-36 strings, which Object.entries lists in insertion order
RECURSIVE assetMapKeys(_, _)
assetMapKeys(deps, keys) ==
    IF deps = <<>> THEN keys
    ELSE assetMapKeys(Tail(deps),
                      IF Head(deps).assetId \in Range(keys) THEN keys
                      ELSE Append(keys, Head(deps).assetId))

\* assetMap[d.assetId] = (assetMap[d.assetId] || 0) + d.amount, then
\* Object.entries(assetMap).map(...): name is asset?.name || 'Unknown'
assetMapEntries(deps) ==
    LET keys == assetMapKeys(deps, <<>>)
    IN  [k \in 1..Len(keys) |->
            [id |-> keys[k],
             known |-> keys[k] \in assetIds,
             amount |-> sumAmounts(depositsOf(keys[k], deps))]]

\* (a, b) => b.amount - a.amount
topCompare(a, b) == fsub(b.amount, a.amount)

\* .slice(0, 5)
slice5(s) == SubSeq(s, 1, IF Len(s) < TopLimit THEN Len(s) ELSE TopLimit)

\* truncation before the zero entries are dropped
sliceThenFilter(sorted) == SelectSeq(slice5(sorted), LAMBDA a : a.amount # 0)

\* .filter(a => a.amount !== 0).slice(0, 5)
filterThenSlice(sorted) == slice5(SelectSeq(sorted, LAMBDA a : a.amount # 0))

topAssetsOf(deps) ==
    LET entries == assetMapEntries(deps)
        sorted == StableSort(entries, [a \in Range(entries), b \in Range(entries) |->
                                          topCompare(a, b)])
    IN  filterThenSlice(sorted)

\* activityStats.topAssets
topAssets == topAssetsOf(depositsOfMonth(viewDate[1], viewDate[2]))

\* a stored dataset: MaxMoverAssets assets, one January deposit for each and
\* one for an asset that was deleted, and at most one further deposit
LoadedMoverLists ==
    LET base(f) == [i \in 1..(MaxMoverAssets + 1) |->
                       [id |-> 100 + i, assetId |-> i, date |-> <<2024, 1, 1>>,
                        amount |-> f[i]]]
    IN  UNION {{base(f)} \cup
               {<<[id |-> 100, assetId |-> a, date |-> d, amount |-> amt]>> \o base(f) :
                    a \in 1..MaxMoverAssets, d \in FlowDates, amt \in MoverAmounts} :
               f \in [1..(MaxMoverAssets + 1) -> MoverAmounts]}

InitMovers ==
    /\ assets = [i \in 1..MaxMoverAssets |-> [id |-> i]]
    /\ trades = <<>>
    /\ deposits \in LoadedMoverLists
    /\ snapshots = <<>>
    /\ expenses = <<>>
    /\ savingsBuckets = <<>>
    /\ savingsTransactions = <<>>
    /\ emergencyTransactions = <<>>
    /\ healthLogs = <<>>
    /\ settings = INITIAL_DATA_settings
    /\ exported = <<>>
    /\ timezoneOffset = 0
    /\ notArrays = {}
    /\ storeMounted
    /\ categoriesInitial
    /\ viewDate = thisMonth
    /\ expensesViewDate = thisMonth
    /\ deleteConfirmAssetId = 0
    /\ now = 0
    /\ nextId = 200
    /\ lastOp = NoOp

NextMovers ==
    \/ \E delta \in {0 - 1, 1} : changeMonth(delta)
    \/ jumpToToday

SpecMovers == InitMovers /\ [][NextMovers]_vars

\* the sum of the month's deposits of one asset
monthSumOf(id) == sumAmounts(depositsOf(id, currentMonthDeposits))

\* the assets with a deposit in the month and a non-zero sum
movedIds == {id \in {d.assetId : d \in Range(currentMonthDeposits)} : monthSumOf(id) # 0}

\* C12: each top-movers entry is the signed sum of one asset's deposits of the
\* month, no asset appears twice, no entry is 0, the sums do not increase down
\* the list, and the list holds min(5, number of non-zero sums) entries, none
\* smaller than a non-zero sum left out.
C12_TopMovers ==
    LET top == topAssets
        moved == movedIds
        listed == {top[k].id : k \in 1..Len(top)}
    IN  /\ \A k \in 1..Len(top) :
               /\ top[k].id \in moved
               /\ top[k].amount = monthSumOf(top[k].id)
        /\ \A j, k \in 1..Len(top) : top[j].id = top[k].id => j = k
        /\ \A k \in 1..(Len(top) - 1) : top[k].amount >= top[k + 1].amount
        /\ Len(top) <= 5
        /\ Len(top) = (IF Cardinality(moved) < 5 THEN Cardinality(moved) ELSE 5)
        /\ \A id \in moved \ listed : \A k \in 1..Len(top) : top[k].amount >= monthSumOf(id)

\* more than 5 assets moved in the month, one more has deposits that cancel,
\* and the list holds gains and withdrawals
C12_Witness ==
    LET top == topAssets
    IN  /\ Cardinality(movedIds) > 5
        /\ \E d \in Range(currentMonthDeposits) : monthSumOf(d.assetId) = 0
        /\ Len(top) = 5
        /\ top[1].amount > 0
        /\ top[5].amount < 0

----------------------------------------------------------------------------
(* The percentage of an asset *)

\* a quotient num / den * 100 with den > 0, kept as its two parts
Percent(num, den) == [num |-> num * 100, den |-> den]

SamePercent(p, q) == p.num * q.den = q.num * p.den

\* part_002 portfolio: let priceChangePercent = 0;
\* if (investedAmount > 0) priceChangePercent = ((currentValue - investedAmount) / investedAmount) * 100
priceChangePercentOf(currentValue, investedAmount) ==
    IF investedAmount > 0
    THEN Percent(fsub(currentValue, investedAmount), investedAmount)
    ELSE Percent(0, 1)

\* priceChangePercent of the element of part_002's portfolio at index i
priceChangePercent(i) ==
    LET e == portfolio[i]
    IN  priceChangePercentOf(e.currentValue, e.investedAmount)

\* screens/Investments.tsx portfolio: change = latestPrice - startPrice;
\* changePercent = startPrice > 0 ? (change / startPrice) * 100 : 0
changePercentOf(startPrice, latestPrice) ==
    LET change == fsub(latestPrice, startPrice)
    IN  IF startPrice > 0 THEN Percent(change, startPrice) ELSE Percent(0, 1)

\* changePercent of the element of the mounted screen's portfolio at index i
changePercent(i) ==
    LET e == portfolio[i]
    IN  changePercentOf(e.startPrice, e.latestPrice)

\* (currentValue - investedAmount) / investedAmount * 100, or 0
returnOnInvested(e) ==
    IF e.investedAmount > 0
    THEN Percent(fsub(e.currentValue, e.investedAmount), e.investedAmount)
    ELSE Percent(0, 1)

\* C13: the percentage an Investments screen shows for an asset is its return
\* against invested capital, (currentValue - investedAmount) / investedAmount
\* * 100 when investedAmount > 0 and 0 otherwise, on the screen the application
\* mounts as on the other.
C13_ReturnOnInvestedCapital ==
    \A i \in 1..Len(assets) :
        LET e == portfolio[i]
        IN  /\ SamePercent(priceChangePercent(i), returnOnInvested(e))
            /\ SamePercent(changePercent(i), returnOnInvested(e))

----------------------------------------------------------------------------
(* Records of an asset that is no longer there *)

\* the records of s whose asset is present
liveOnly(s) == SelectSeq(s, LAMBDA r : r.assetId \in assetIds)

\* mNet of the four trend months over the list deps
trendValuesOver(deps) ==
    [k \in 1..4 |->
        LET period == trendPeriod(viewDate[1], viewDate[2], 4 - k)
        IN  monthNet(SelectSeq(deps, LAMBDA d : matchesMonth(d.date, period[1], period[2])))]

\* C14: the figures of the investments view are those of the dataset without
\* the deposits and snapshots whose asset is gone: the portfolio entries and
\* totals, the end-of-month value, the month's deposited, withdrawn and net
\* flow, the net-flow trend and the top movers.
C14_OrphansNeverMatched ==
    LET liveDeps == liveOnly(deposits)
        liveSnaps == liveOnly(snapshots)
        monthDeps == currentMonthDeposits
        liveMonthDeps == liveOnly(monthDeps)
    IN  /\ \A i \in 1..Len(assets) :
               /\ portfolio[i] = portfolioEntry(assets[i], liveDeps, liveSnaps)
               /\ eomAssetValue(assets[i], viewDate[1], viewDate[2])
                      = eomAssetValueOf(assets[i], liveDeps, liveSnaps, viewDate[1], viewDate[2])
        /\ totalDepositedOf(monthDeps) = totalDepositedOf(liveMonthDeps)
        /\ totalWithdrawnOf(monthDeps) = totalWithdrawnOf(liveMonthDeps)
        /\ netFlowOf(monthDeps) = netFlowOf(liveMonthDeps)
        /\ trendValuesOver(deposits) = trendValuesOver(liveDeps)
        /\ topAssetsOf(monthDeps) = topAssetsOf(liveMonthDeps)

----------------------------------------------------------------------------
(* matchesMonth on the text of a date: a string is the sequence of its       *)
(* characters                                                                *)

Digit == {"0", "1", "2", "3", "4", "5", "6", "7", "8", "9"}

digitValue(c) ==
    CASE c = "0" -> 0 [] c = "1" -> 1 [] c = "2" -> 2 [] c = "3" -> 3 [] c = "4" -> 4
      [] c = "5" -> 5 [] c = "6" -> 6 [] c = "7" -> 7 [] c = "8" -> 8 [] c = "9" -> 9

\* the result of parseInt: NaN or an integer
NaN == [nan |-> TRUE, value |-> 0]

Int32(v) == [nan |-> FALSE, value |-> v]

\* String(undefined), what parseInt makes of a missing part
undefinedText == <<"u", "n", "d", "e", "f", "i", "n", "e", "d">>

\* dateStr.split('-'): the pieces between the '-' characters
RECURSIVE split(_, _, _)
split(s, cur, parts) ==
    IF s = <<>> THEN Append(parts, cur)
    ELSE IF Head(s) = "-" THEN split(Tail(s), <<>>, Append(parts, cur))
    ELSE split(Tail(s), Append(cur, Head(s)), parts)

\* the digits parseInt reads: the longest run of digits at the front of s
RECURSIVE readDigits(_, _, _)
readDigits(s, seen, acc) ==
    IF s # <<>> /\ Head(s) \in Digit
    THEN readDigits(Tail(s), TRUE, acc * 10 + digitValue(Head(s)))
    ELSE IF seen THEN Int32(acc) ELSE NaN

\* leading white space is skipped
RECURSIVE skipSpace(_)
skipSpace(s) == IF s # <<>> /\ Head(s) = " " THEN skipSpace(Tail(s)) ELSE s

\* parseInt(text, 10): white space, an optional sign, then digits; whatever
\* follows the digits is ignored, and NaN when there is no digit
parseInt10(text) ==
    LET s == skipSpace(text)
    IN  IF s # <<>> /\ Head(s) = "+" THEN readDigits(Tail(s), FALSE, 0)
        ELSE readDigits(s, FALSE, 0)

\* parts[k - 1], undefined past the end
partAt(parts, k) == IF k <= Len(parts) THEN parts[k] ELSE undefinedText

\* matchesMonth on the characters of dateStr; === is false for NaN
matchesMonthText(dateStr, targetYear, targetMonth) ==
    IF dateStr = <<>> THEN FALSE
    ELSE LET parts == split(dateStr, <<>>, <<>>)
             y == parseInt10(partAt(parts, 1))
             m == parseInt10(partAt(parts, 2))
         IN  /\ ~y.nan /\ y.value = targetYear
             /\ ~m.nan /\ m.value - 1 = targetMonth

YearTexts == {<<"2", "0", "2", "4">>, <<"2", "0", "2", "3">>,
              <<"2", "0", "2", "4", "x">>, <<" ", "2", "0", "2", "4">>, <<"x">>, <<>>}

MonthTexts == {<<"0", "1">>, <<"0", "2">>, <<"1">>, <<"0", "1", "x">>,
               <<"+", "1">>, <<"x", "1">>, <<>>}

DayTexts == {<<"0", "5">>, <<"5">>}

\* the texts a stored date can hold: the empty string and one, two or three
\* parts joined by '-'
DateTexts ==
    {<<>>} \cup YearTexts
           \cup {y \o <<"-">> \o m : y \in YearTexts, m \in MonthTexts}
           \cup {y \o <<"-">> \o m \o <<"-">> \o d :
                     y \in YearTexts, m \in MonthTexts, d \in DayTexts}

\* a stored dataset: one asset and one deposit whose date is any text
InitDates ==
    /\ assets = <<[id |-> 1]>>
    /\ trades = <<>>
    /\ deposits \in {<<[id |-> 2, assetId |-> 1, date |-> txt, amount |-> 4]>> :
                        txt \in DateTexts}
    /\ snapshots = <<>>
    /\ expenses = <<>>
    /\ savingsBuckets = <<>>
    /\ savingsTransactions = <<>>
    /\ emergencyTransactions = <<>>
    /\ healthLogs = <<>>
    /\ settings = INITIAL_DATA_settings
    /\ exported = <<>>
    /\ timezoneOffset = 0
    /\ notArrays = {}
    /\ storeMounted
    /\ categoriesInitial
    /\ viewDate = thisMonth
    /\ expensesViewDate = thisMonth
    /\ deleteConfirmAssetId = 0
    /\ now = 0
    /\ nextId = 3
    /\ lastOp = NoOp

NextDates ==
    \/ \E delta \in {0 - 1, 1} : changeMonth(delta)
    \/ jumpToToday

SpecDates == InitDates /\ [][NextDates]_vars

\* four digits, '-', two digits, '-', two digits
wellFormed(s) ==
    /\ Len(s) = 10
    /\ s[5] = "-" /\ s[8] = "-"
    /\ \A k \in {1, 2, 3, 4, 6, 7, 9, 10} : s[k] \in Digit

yearOf(s) == digitValue(s[1]) * 1000 + digitValue(s[2]) * 100
             + digitValue(s[3]) * 10 + digitValue(s[4])

monthOf(s) == digitValue(s[6]) * 10 + digitValue(s[7])

\* C15: matchesMonth is true exactly for a well-formed YYYY-MM-DD text whose
\* year is the target year and whose month minus 1 is the target month; for
\* every other text it is false.
C15_MatchesOnlyWellFormed ==
    \A j \in 1..Len(deposits) :
        LET s == deposits[j].date
        IN  matchesMonthText(s, viewDate[1], viewDate[2])
                <=> (/\ wellFormed(s)
                     /\ yearOf(s) = viewDate[1]
                     /\ monthOf(s) - 1 = viewDate[2])

----------------------------------------------------------------------------
(* Health logs and settings: the Health, Home and Settings screens.  A       *)
(* weight is counted in tenths of a kilogram, the step of its input          *)

MaxLogs == 5

HealthDates == {<<2024, 1, 31>>, <<2024, 2, 1>>}

WeightValues == {534, 866}

Heights == {0, 170}

\* todayStr(): the current day
todayStr == <<2024, 2, 1>>

\* what the log form can submit: a weight, or a day's steps
LogEntries ==
    {[type |-> "Weight", value |-> v, date |-> d] : v \in WeightValues, d \in HealthDates}
        \cup {[type |-> "Steps", value |-> 9000, date |-> todayStr]}

\* the comparator of an ascending sort
oldestFirst(a, b) == getTime(a.date) - getTime(b.date)

\* (a, b) => new Date(b.date).getTime() - new Date(a.date).getTime()
newestFirst(a, b) == getTime(b.date) - getTime(a.date)

\* getLogs(type): the logs of one type, most recent date first
getLogs(type) ==
    LET own == SelectSeq(healthLogs, LAMBDA l : l.type = type)
    IN  StableSort(own, [a \in Range(own), b \in Range(own) |-> newestFirst(a, b)])

weightLogs == getLogs("Weight")

\* x || 0 for a number: 0 for 0 and NaN
NumberOrZero(x) == IF x = NAN THEN 0 ELSE x

\* weightLogs[0]?.value || 0
currentWeight ==
    LET logs == weightLogs
    IN  IF Len(logs) > 0 THEN NumberOrZero(logs[1].value) ELSE 0

\* currentWeight / ((heightCm / 100) ** 2) as a quotient, the weight in tenths
bmiQuotient(weight, heightCm) == [num |-> weight * 1000, den |-> heightCm * heightCm]

\* (num / den).toFixed(1) of a positive quotient, in tenths
toFixed1(num, den) == (20 * num + den) \div (2 * den)

\* Health.tsx: bmi, a string: the value to one decimal, or '--'
bmi ==
    IF settings.heightCm > 0 /\ currentWeight > 0
    THEN LET q == bmiQuotient(currentWeight, settings.heightCm)
         IN  [text |-> "", tenths |-> toFixed1(q.num, q.den)]
    ELSE [text |-> "--", tenths |-> 0]

\* Health.tsx: getBMICategory(val: string), on parseFloat(val)
getBMICategory(val) ==
    IF val.text = "--" THEN ""
    ELSE IF val.tenths < 185 THEN "Underweight"
    ELSE IF val.tenths < 250 THEN "Normal"
    ELSE IF val.tenths < 300 THEN "Overweight"
    ELSE "Obese"

\* part_004: bmiValue, a number: the quotient, or 0
bmiValue ==
    IF settings.heightCm > 0 /\ currentWeight > 0
    THEN bmiQuotient(currentWeight, settings.heightCm)
    ELSE [num |-> 0, den |-> 1]

\* part_004: getBMICategory(val: number)
getBMICategoryOfNumber(val) ==
    IF val.num = 0 THEN ""
    ELSE IF 2 * val.num < 37 * val.den THEN "Underweight"
    ELSE IF val.num < 25 * val.den THEN "Normal"
    ELSE IF val.num < 30 * val.den THEN "Overweight"
    ELSE "Obese"

\* Health.tsx handleLog, and part_004 handleSaveLog with no log being edited
handleLog(entry) ==
    /\ Len(healthLogs) < MaxLogs
    /\ healthLogs' = <<[id |-> nextId, date |-> entry.date, type |-> entry.type,
                        value |-> entry.value]>> \o healthLogs
    /\ nextId' = nextId + 1
    /\ lastOp' = NoOp
    /\ UNCHANGED <<dataVars, sessionVars, expenses, savingsBuckets, savingsTransactions,
                   emergencyTransactions, settings, exported, viewDate,
                   expensesViewDate, deleteConfirmAssetId, now>>

\* Settings.tsx: latestWeight, undefined without a weight log
latestWeight ==
    LET logs == weightLogs
    IN  IF Len(logs) > 0 THEN logs[1].value ELSE UNDEFINED

\* Settings.tsx handleSaveSettings; form holds what parseFloat made of each
\* field (NAN for an empty one) and the text of the goal date
handleSaveSettings(form) ==
    \E logsWeight \in {~(form.currentWeight = NAN) /\ form.currentWeight # latestWeight} :
        /\ logsWeight => Len(healthLogs) < MaxLogs
        /\ healthLogs' = IF logsWeight
                         THEN <<[id |-> nextId, date |-> todayStr, type |-> "Weight",
                                 value |-> form.currentWeight]>> \o healthLogs
                         ELSE healthLogs
        /\ nextId' = IF logsWeight THEN nextId + 1 ELSE nextId
        /\ settings' = [heightCm |-> form.height,
                        eurRate |-> form.rate,
                        emergencyTarget |-> form.emergencyTarget,
                        targetWeight |-> NumberOrUndefined(form.targetWeight),
                        targetDate |-> form.targetDate,
                        stepTarget |-> NumberOrUndefined(form.stepTarget),
                        calorieTarget |-> NumberOrUndefined(form.calorieTarget),
                        lastBackupDate |-> settings.lastBackupDate]
        /\ lastOp' = NoOp
        /\ UNCHANGED <<dataVars, sessionVars, expenses, savingsBuckets, savingsTransactions,
                       emergencyTransactions, exported, viewDate, expensesViewDate,
                       deleteConfirmAssetId, now>>

\* the profile part of the settings form, the other fields left as they are
ProfileForms ==
    {[currentWeight |-> w, height |-> h, rate |-> settings.eurRate,
      emergencyTarget |-> settings.emergencyTarget,
      targetWeight |-> settings.targetWeight, targetDate |-> settings.targetDate,
      stepTarget |-> settings.stepTarget, calorieTarget |-> settings.calorieTarget] :
        w \in {NAN} \cup WeightValues, h \in Heights}

NextHealth ==
    \/ \E entry \in LogEntries : handleLog(entry)
    \/ \E form \in ProfileForms : handleSaveSettings(form)

SpecHealth == Init /\ [][NextHealth]_vars

\* the category of the computed quotient: below 18.5, below 25, below 30, above
categoryOf(q) ==
    IF 2 * q.num < 37 * q.den THEN "Underweight"
    ELSE IF q.num < 25 * q.den THEN "Normal"
    ELSE IF q.num < 30 * q.den THEN "Overweight"
    ELSE "Obese"

\* C16: with a weight and a height on record, the category the Health screen
\* shows is the category of the computed, unrounded BMI, on the screen the
\* application mounts as on the other.
C16_CategoryOfUnroundedBMI ==
    (settings.heightCm > 0 /\ currentWeight > 0) =>
        LET q == bmiQuotient(currentWeight, settings.heightCm)
        IN  /\ getBMICategoryOfNumber(bmiValue) = categoryOf(q)
            /\ getBMICategory(bmi) = categoryOf(q)

----------------------------------------------------------------------------
(* Home: the weight trend and the projected weight.  Weights are decimals    *)
(* with one digit, far inside the exact range, and a quotient is kept as     *)
(* numerator and denominator                                                 *)

\* weightLogs.slice(0, 4)
recentOf(logs) == SubSeq(logs, 1, IF Len(logs) < 4 THEN Len(logs) ELSE 4)

\* Home.tsx: weightTrend
weightTrend ==
    LET logs == weightLogs
        recent == recentOf(logs)
    IN  IF Len(logs) >= 2 /\ Len(recent) > 1
        THEN [num |-> recent[1].value - recent[Len(recent)].value, den |-> Len(recent)]
        ELSE [num |-> 0, den |-> 1]

\* Home.tsx: projectedWeight4w = latestWeight ? latestWeight + weightTrend * 4 : 0
projectedWeight4w ==
    LET latest == latestWeight
        trend == weightTrend
    IN  IF latest = UNDEFINED \/ latest = 0 \/ latest = NAN
        THEN [num |-> 0, den |-> 1]
        ELSE [num |-> latest * trend.den + 4 * trend.num, den |-> trend.den]

SameQuotient(p, q) == p.num * q.den = q.num * p.den

\* the positions of the weight logs in data.healthLogs
weightPositions == {i \in 1..Len(healthLogs) : healthLogs[i].type = "Weight"}

\* W holds the min(4, n) most recent weight logs: no log outside it is later
\* than a log inside it
IsWindow(W) ==
    /\ W \subseteq weightPositions
    /\ Cardinality(W) = (IF Cardinality(weightPositions) < 4
                         THEN Cardinality(weightPositions) ELSE 4)
    /\ \A i \in W, j \in weightPositions \ W :
           getTime(healthLogs[j].date) <= getTime(healthLogs[i].date)

\* with at least 2 weight logs the trend is (newest - oldest) of a window of
\* the most recent logs over a divisor, 4 or the number of logs in the window,
\* otherwise 0; with a weight log the projection is latest + trend * 4
trendLaw(byFour) ==
    LET trend == weightTrend
        projected == projectedWeight4w
        latest == latestWeight
        positions == weightPositions
        time == [i \in positions |-> getTime(healthLogs[i].date)]
        size == IF Cardinality(positions) < 4 THEN Cardinality(positions) ELSE 4
    IN  /\ Cardinality(positions) < 2 => trend.num = 0
        /\ Cardinality(positions) >= 2 =>
               \E W \in SUBSET positions :
                   /\ Cardinality(W) = size
                   /\ \A i \in W, j \in positions \ W : time[j] <= time[i]
                   /\ \E f, l \in W :
                          /\ \A i \in W : time[i] <= time[f] /\ time[l] <= time[i]
                          /\ SameQuotient(trend, [num |-> healthLogs[f].value
                                                            - healthLogs[l].value,
                                                  den |-> IF byFour THEN 4 ELSE size])
                          /\ latest = healthLogs[f].value
        /\ positions # {} =>
               SameQuotient(projected, [num |-> latest * trend.den + 4 * trend.num,
                                        den |-> trend.den])

----------------------------------------------------------------------------
(* SavingsView: progress of a bucket toward its target *)

\* what parseFloat makes of the target field: empty, 0, an amount, below 0
ParsedTargets == {NAN, 0, 10, 0 - 10}

\* the guard b.target && (...)
targetIsSet(target) == target # UNDEFINED /\ target # 0 /\ target # NAN

\* Math.min(100, q) of the quotient q, den > 0
minWith100(q) == IF q.num > 100 * q.den THEN [num |-> 100, den |-> 1] ELSE q

\* (balance / target) * 100 with a positive denominator
progressQuotient(balance, target) ==
    IF target < 0 THEN [num |-> (0 - balance) * 100, den |-> 0 - target]
    ELSE [num |-> balance * 100, den |-> target]

\* the progress bar of one element of bucketBalances: drawn or not, and the
\* width Math.min(100, (b.balance / b.target) * 100)
progressOf(b) ==
    IF targetIsSet(b.target)
    THEN [drawn |-> TRUE, width |-> minWith100(progressQuotient(b.balance, b.target))]
    ELSE [drawn |-> FALSE, width |-> [num |-> 0, den |-> 1]]

NextBuckets ==
    \/ \E target \in ParsedTargets : handleAddBucket(target)
    \/ \E b \in 1..MaxTxId, amt \in TxAmounts, d \in TxDates, ty \in TxTypes :
           handleSaveBucketTxAdd(b, amt, d, ty)
    \/ \E id \in 1..MaxTxId : handleDeleteBucketTx(id)

SpecBuckets == Init /\ [][NextBuckets]_vars

\* C18: a bucket's progress is drawn exactly when its target is set and
\* positive, and it is then min(100, balance / target * 100).
C18_ProgressOnlyForPositiveTarget ==
    LET shown == bucketBalances
    IN  \A i \in 1..Len(shown) :
            LET b == shown[i]
                p == progressOf(b)
            IN  /\ p.drawn <=> (b.target # UNDEFINED /\ b.target > 0)
                /\ p.drawn =>
                       SameQuotient(p.width,
                           IF b.balance * 100 > 100 * b.target
                           THEN [num |-> 100, den |-> 1]
                           ELSE [num |-> b.balance * 100, den |-> b.target])

----------------------------------------------------------------------------
(* The divisions of the derived figures: each one with the value it divides *)
(* by, in the states where its guard lets it run                            *)

\* Home.tsx: rate, without the fallback
rateOfSettings == settings.eurRate

\* Home.tsx: rate = data.settings.eurRate || 4.97, in hundredths
rate == IF settings.eurRate = 0 \/ settings.eurRate = NAN THEN 497 ELSE settings.eurRate

Division(site, divisor) == [site |-> site, divisor |-> divisor]

\* valuation: priceChangePercent, changePercent, portfolioReturnPercent
valuationDivisions ==
    LET entries == portfolio
        portfolioStart == SumSeq([i \in 1..Len(entries) |-> entries[i].startPrice])
    IN  {Division("priceChangePercent", entries[i].investedAmount) :
             i \in {j \in 1..Len(entries) : entries[j].investedAmount > 0}}
        \cup {Division("changePercent", entries[i].startPrice) :
                  i \in {j \in 1..Len(entries) : entries[j].startPrice > 0}}
        \cup (IF portfolioStart > 0
              THEN {Division("portfolioReturnPercent", portfolioStart)} ELSE {})

\* comparison: netFlowChangePercent and the expense percentStr
comparisonDivisions ==
    LET stats == activityStats
        shown == comparison
    IN  (IF stats.prevNetFlow # 0
         THEN {Division("netFlowChangePercent", Abs(stats.prevNetFlow))} ELSE {})
        \cup (IF shown.prevTotal = 0 THEN {} ELSE {Division("percentStr", shown.prevTotal)})

\* trend scaling: the height of a bar of either chart
trendScalingDivisions ==
    LET stats == activityStats
        shown == comparison
    IN  (IF stats.maxTrend > 0 THEN {Division("netFlowBar", stats.maxTrend)} ELSE {})
        \cup (IF shown.maxTrend > 0 THEN {Division("expenseBar", shown.maxTrend)} ELSE {})

\* net worth: savingsRON / rate and emergencyRON / rate
netWorthDivisions == {Division("netWorthEUR", rate)}

\* goal progress: a bucket's bar and the percentage of a health log against
\* its target
goalDivisions ==
    {Division("bucket", savingsBuckets[i].target) :
         i \in {j \in 1..Len(savingsBuckets) : targetIsSet(savingsBuckets[j].target)}}
        \cup {Division("healthTarget", g) :
                  g \in {x \in {settings.targetWeight, settings.stepTarget,
                                settings.calorieTarget} : targetIsSet(x)}}

\* health: the BMI and the weight trend
healthDivisions ==
    LET logs == weightLogs
        recent == recentOf(logs)
    IN  (IF settings.heightCm > 0 /\ currentWeight > 0
         THEN {Division("bmi", settings.heightCm * settings.heightCm)} ELSE {})
        \cup (IF Len(logs) >= 2 /\ Len(recent) > 1
              THEN {Division("weightTrend", Len(recent))} ELSE {})

divisions ==
    valuationDivisions \cup comparisonDivisions \cup trendScalingDivisions
        \cup netWorthDivisions \cup goalDivisions \cup healthDivisions

\* what the settings form can hold for the rate and the height
RateValues == {0, NAN, 497}

FigureForms ==
    {[currentWeight |-> NAN, height |-> h, rate |-> r,
      emergencyTarget |-> settings.emergencyTarget,
      targetWeight |-> settings.targetWeight, targetDate |-> settings.targetDate,
      stepTarget |-> s, calorieTarget |-> settings.calorieTarget] :
        h \in Heights, r \in RateValues, s \in {NAN, 10000}}

\* a stored dataset: one asset with or without a deposit and a snapshot, one
\* bucket with any target, an expense or none, two weight logs or none
InitFigures ==
    /\ assets = <<[id |-> 1]>>
    /\ trades = <<>>
    /\ deposits \in {<<>>} \cup {<<[id |-> 2, assetId |-> 1, date |-> d, amount |-> a]>> :
                                    d \in FlowDates, a \in {0 - 1, 2}}
    /\ snapshots \in {<<>>, <<[id |-> 3, assetId |-> 1, date |-> <<2024, 1, 1>>,
                               price |-> 10, createdAt |-> 1]>>}
    /\ expenses \in {<<>>} \cup {<<[id |-> 4, amount |-> 5, date |-> d]>> : d \in FlowDates}
    /\ savingsBuckets \in {<<[id |-> 5, target |-> tg]>> : tg \in {UNDEFINED, 0, 10}}
    /\ savingsTransactions \in {<<>>, <<[id |-> 6, bucketId |-> 5, amount |-> 2,
                                         date |-> <<2024, 1, 31>>, type |-> "Add"]>>}
    /\ emergencyTransactions = <<>>
    /\ healthLogs \in {<<>>, <<[id |-> 7, date |-> <<2024, 2, 1>>, type |-> "Weight",
                                value |-> 534],
                               [id |-> 8, date |-> <<2024, 1, 31>>, type |-> "Weight",
                                value |-> 866]>>}
    /\ settings = INITIAL_DATA_settings
    /\ exported = <<>>
    /\ timezoneOffset = 0
    /\ notArrays = {}
    /\ storeMounted
    /\ categoriesInitial
    /\ viewDate = thisMonth
    /\ expensesViewDate = thisMonth
    /\ deleteConfirmAssetId = 0
    /\ now = 1
    /\ nextId = 9
    /\ lastOp = NoOp

NextFigures ==
    \/ \E delta \in {0 - 1, 1} : changeMonth(delta)
    \/ jumpToToday
    \/ \E delta \in {0 - 1, 1} : expensesChangeMonth(delta)
    \/ expensesJumpToToday
    \/ \E form \in FigureForms : handleSaveSettings(form)

SpecFigures == InitFigures /\ [][NextFigures]_vars

\* C19: no division of the valuation, comparison, trend-scaling, net-worth,
\* goal-progress and health figures runs with a divisor that is 0 or NaN.
C19_NoDivisionByZero ==
    \A d \in divisions : d.divisor # 0 /\ d.divisor # NAN

\* the rate is 0, the asset has nothing invested, the previous month has no
\* expenses, the net-flow trend is all 0, the bucket's target is 0, the step
\* goal is cleared, and the weight trend is computed
C19_Witness ==
    /\ settings.eurRate = 0
    /\ settings.heightCm = 0
    /\ settings.stepTarget = UNDEFINED
    /\ portfolio[1].investedAmount = 0
    /\ comparison.prevTotal = 0
    /\ activityStats.maxTrend = 0
    /\ savingsBuckets[1].target = 0
    /\ Division("weightTrend", 2) \in divisions
    /\ Division("netWorthEUR", 497) \in divisions

----------------------------------------------------------------------------
(* Backup: JSON.stringify(data) and importData.  A JSON object is a function *)
(* from the keys it holds to their values                                    *)

\* JSON null
NULL == 0 - 3

\* the store's data
data ==
    [assets |-> assets, trades |-> trades, deposits |-> deposits,
     snapshots |-> snapshots, expenses |-> expenses, savingsBuckets |-> savingsBuckets,
     savingsTransactions |-> savingsTransactions,
     emergencyTransactions |-> emergencyTransactions,
     healthLogs |-> healthLogs, settings |-> settings]

\* the keys whose value is a date string
DateKeys == {"date", "targetDate", "lastBackupDate"}

\* the keys whose value is not a number
TextKeys == DateKeys \cup {"type"}

\* the optional keys
OptionalKeys == {"target", "createdAt", "targetWeight", "targetDate", "stepTarget",
                 "calorieTarget", "lastBackupDate"}

isUndefined(key, value) ==
    key \in OptionalKeys /\ (IF key \in DateKeys THEN value = NoDate ELSE value = UNDEFINED)

\* JSON.stringify of one value: NaN is written as null
jsonValue(key, value) == IF key \notin TextKeys /\ value = NAN THEN NULL ELSE value

\* JSON.stringify of an object: a key whose value is undefined is left out
jsonObject(obj) ==
    [key \in {k \in DOMAIN obj : ~isUndefined(k, obj[k])} |-> jsonValue(key, obj[key])]

jsonArray(list) == [i \in 1..Len(list) |-> jsonObject(list[i])]

\* JSON.parse(JSON.stringify(d)): the document the backup file holds
stringify(d) ==
    [key \in DOMAIN d |->
        IF key = "settings" THEN jsonObject(d.settings) ELSE jsonArray(d[key])]

\* the keys INITIAL_DATA.settings holds
initialSettingsKeys ==
    {k \in DOMAIN INITIAL_DATA_settings : ~isUndefined(k, INITIAL_DATA_settings[k])}

\* { ...INITIAL_DATA.settings, ...(parsed.settings || {}) }
mergeSettings(parsedSettings) ==
    [key \in initialSettingsKeys \cup DOMAIN parsedSettings |->
        IF key \in DOMAIN parsedSettings THEN parsedSettings[key]
        ELSE INITIAL_DATA_settings[key]]

\* obj.key for each key of keys: undefined when the object does not hold it
readObject(obj, keys) ==
    [key \in keys |->
        IF key \in DOMAIN obj THEN obj[key]
        ELSE IF key \in DateKeys THEN NoDate ELSE UNDEFINED]

\* the keys of the elements of each list of AppData
elementKeys ==
    [assets |-> {"id"},
     trades |-> {"id", "assetId"},
     deposits |-> {"id", "assetId", "date", "amount"},
     snapshots |-> {"id", "assetId", "date", "price", "createdAt"},
     expenses |-> {"id", "amount", "date"},
     savingsBuckets |-> {"id", "target"},
     savingsTransactions |-> {"id", "bucketId", "amount", "date", "type"},
     emergencyTransactions |-> {"id", "amount", "date", "type"},
     healthLogs |-> {"id", "date", "type", "value"}]

\* importData's sanitized value for a parsed document that holds every list
sanitized(parsed) ==
    [key \in DOMAIN parsed |->
        IF key = "settings"
        THEN readObject(mergeSettings(parsed.settings), DOMAIN INITIAL_DATA_settings)
        ELSE [i \in 1..Len(parsed[key]) |-> readObject(parsed[key][i], elementKeys[key])]]

\* importData returns true for a file that parses to an object
importReturns(file) == file # <<>>

\* Settings.tsx handleExport: writes the file, then records the backup date
handleExport ==
    /\ exported' = <<stringify(data)>>
    /\ settings' = [settings EXCEPT !.lastBackupDate = todayStr]
    /\ lastOp' = NoOp
    /\ UNCHANGED <<dataVars, sessionVars, expenses, savingsBuckets, savingsTransactions,
                   emergencyTransactions, healthLogs, viewDate, expensesViewDate,
                   deleteConfirmAssetId, now, nextId>>

\* Settings.tsx handleImport with the file written last: importData(text)
importData ==
    /\ importReturns(exported)
    /\ LET d == sanitized(exported[1])
       IN  /\ assets' = d.assets
           /\ trades' = d.trades
           /\ deposits' = d.deposits
           /\ snapshots' = d.snapshots
           /\ expenses' = d.expenses
           /\ savingsBuckets' = d.savingsBuckets
           /\ savingsTransactions' = d.savingsTransactions
           /\ emergencyTransactions' = d.emergencyTransactions
           /\ healthLogs' = d.healthLogs
           /\ settings' = d.settings
    /\ lastOp' = NoOp
    /\ UNCHANGED <<exported, sessionVars, viewDate, expensesViewDate, deleteConfirmAssetId, now, nextId>>

\* what the settings form can hold for the height and the goals, a field left
\* empty being NaN
GoalForms ==
    {[currentWeight |-> NAN, height |-> h, rate |-> 497, emergencyTarget |-> 0,
      targetWeight |-> tw, targetDate |-> NoDate, stepTarget |-> st,
      calorieTarget |-> ct] :
        h \in {NAN, 170}, tw \in {NAN, 700}, st \in {NAN, 8000}, ct \in {NAN, 2000}}

NextBackup ==
    \/ \E form \in GoalForms : handleSaveSettings(form)
    \/ \E target \in {NAN, 10} : handleAddBucket(target)
    \/ handleExport
    \/ importData

SpecBackup == Init /\ [][NextBackup]_vars

\* C20: importData(JSON.stringify(d)) returns true and leaves the store's data
\* equal to d, for the data d of every reachable state.
C20_ExportImportRoundTrip ==
    /\ importReturns(<<stringify(data)>>)
    /\ sanitized(stringify(data)) = data

----------------------------------------------------------------------------
(* Editing a snapshot by id *)

\* C21: handleUpdateSnapshot(id, newDate, newPrice) replaces only the date and
\* the price of the snapshot whose id is id: the number of snapshots, every
\* other snapshot, and that snapshot's id, assetId and createdAt are unchanged,
\* whether or not another snapshot of the asset has the new date; with no
\* snapshot of that id the list is unchanged.
C21_UpdateSnapshotFrame ==
    \A id \in 1..(MaxId + 1), newDate \in InvestDates, newPrice \in Prices :
        LET updatedSnapshots == updateSnapshots(snapshots, id, newDate, newPrice)
        IN /\ Len(updatedSnapshots) = Len(snapshots)
           /\ \A i \in 1..Len(snapshots) :
                  IF snapshots[i].id = id
                  THEN /\ updatedSnapshots[i].id = id
                       /\ updatedSnapshots[i].assetId = snapshots[i].assetId
                       /\ updatedSnapshots[i].createdAt = snapshots[i].createdAt
                       /\ updatedSnapshots[i].date = newDate
                       /\ updatedSnapshots[i].price = newPrice
                  ELSE updatedSnapshots[i] = snapshots[i]
           /\ (\A i \in 1..Len(snapshots) : snapshots[i].id # id)
                  => updatedSnapshots = snapshots

\* an edit by id has put two snapshots of one live asset on the same date:
\* the upserts never do, they replace the snapshot of the pair
C21_Witness ==
    \E i, j \in 1..Len(snapshots) :
        /\ i # j
        /\ snapshots[i].assetId = snapshots[j].assetId
        /\ snapshots[i].assetId \in assetIds
        /\ snapshots[i].date = snapshots[j].date
        /\ snapshots[i].price # snapshots[j].price

----------------------------------------------------------------------------
(* Month of an expense under the device's timezone *)

TimezoneOffsets == {0 - 5, 0, 2}

\* the first and the last days of the months around today
BoundaryDates == {<<2024, 1, 31>>, <<2024, 2, 1>>, <<2024, 2, 29>>, <<2024, 3, 1>>}

previousDay(date) ==
    IF date[3] > 1 THEN <<date[1], date[2], date[3] - 1>>
    ELSE LET prev == prevMonthOf(date[1], date[2] - 1)
         IN  <<prev[1], prev[2] + 1, lastDayOfMonth(prev[1], prev[2])>>

\* new Date('YYYY-MM-DD') is midnight UTC of that day; the local calendar day
\* its getters read is the day before wherever local time is behind UTC
localDayOf(dateStr) == IF timezoneOffset < 0 THEN previousDay(dateStr) ELSE dateStr

getFullYear(dateStr) == localDayOf(dateStr)[1]
getMonth(dateStr) == localDayOf(dateStr)[2] - 1

\* d.getMonth() === now.getMonth() && d.getFullYear() === now.getFullYear(),
\* now being new Date()
inMonthOfNow(dateStr) ==
    getMonth(dateStr) = thisMonth[2] /\ getFullYear(dateStr) = thisMonth[1]

\* HomeScreen.stats.currentMonthExpenses
homeCurrentMonthExpenses ==
    reduceSum([i \in 1..Len(SelectSeq(expenses, LAMBDA e : inMonthOfNow(e.date))) |->
                  SelectSeq(expenses, LAMBDA e : inMonthOfNow(e.date))[i].amount], 0)

\* ExpensesView.currentMonthExpenses of the Money screen that filters by new Date
moneyCurrentMonthExpenses == SelectSeq(expenses, LAMBDA ex : inMonthOfNow(ex.date))

InitZones ==
    /\ assets = <<>>
    /\ trades = <<>>
    /\ deposits = <<>>
    /\ snapshots = <<>>
    /\ expenses = <<>>
    /\ savingsBuckets = <<>>
    /\ savingsTransactions = <<>>
    /\ emergencyTransactions = <<>>
    /\ healthLogs = <<>>
    /\ settings = INITIAL_DATA_settings
    /\ exported = <<>>
    /\ timezoneOffset \in TimezoneOffsets
    /\ notArrays = {}
    /\ storeMounted
    /\ categoriesInitial
    /\ viewDate = thisMonth
    /\ expensesViewDate = thisMonth
    /\ deleteConfirmAssetId = 0
    /\ now = 0
    /\ nextId = 1
    /\ lastOp = NoOp

NextZones ==
    \/ \E amt \in ExpenseAmounts, d \in BoundaryDates : handleSave(amt, d)
    \/ \E delta \in {0 - 1, 1} : expensesChangeMonth(delta)
    \/ expensesJumpToToday

SpecZones == InitZones /\ [][NextZones]_vars

\* the expenses of a calendar month, read off the date strings
datedIn(y, m) == SelectSeq(expenses, LAMBDA ex : ex.date[1] = y /\ ex.date[2] = m + 1)

\* C22: whatever the timezone offset, an expense dated on the first or the
\* last day of a month is counted in that month and in no other by every
\* current-month total: Home's currentMonthExpenses and both Expenses view
\* totals are the sum over the expenses dated in the month they are about.
C22_MonthIndependentOfTimezone ==
    /\ homeCurrentMonthExpenses = expenseTotal(datedIn(thisMonth[1], thisMonth[2]))
    /\ moneyCurrentMonthExpenses = datedIn(thisMonth[1], thisMonth[2])
    /\ expensesOfMonth(expensesViewDate[1], expensesViewDate[2])
           = datedIn(expensesViewDate[1], expensesViewDate[2])

----------------------------------------------------------------------------
(* HomeScreen.stats: investment value *)

\* the comparator of Home's snapshot sort: newest date first, date only
homeSnapshotCompare(a, b) == getTime(b.date) - getTime(a.date)

\* the value Home gives one asset
homeCurrentValue(asset) ==
    LET own == SelectSeq(snapshots, LAMBDA s : s.assetId = asset.id)
        snaps == StableSort(own, [a \in Range(own), b \in Range(own) |->
                                      homeSnapshotCompare(a, b)])
        assetDeposits == depositsOf(asset.id, deposits)
        investedAmount == reduceSum([i \in 1..Len(assetDeposits) |->
                                        assetDeposits[i].amount], 0)
    IN  IF Len(snaps) = 0 THEN investedAmount
        ELSE LET latestSnap == snaps[1]
                 later == SelectSeq(assetDeposits,
                                    LAMBDA d : ~StrLeq(d.date, latestSnap.date))
                 subsequentFlow == reduceSum([i \in 1..Len(later) |-> later[i].amount], 0)
             IN  fadd(latestSnap.price, subsequentFlow)

investmentValueEUR ==
    reduceSum([i \in 1..Len(assets) |-> homeCurrentValue(assets[i])], 0)

\* C23: for every dataset, Home's investmentValueEUR equals the Investments
\* screen's totalCurrentValue, deposits dated after the latest snapshot and
\* snapshots that share a date included.
C23_HomeMatchesInvestments == investmentValueEUR = totalCurrentValue

----------------------------------------------------------------------------
(* At least one price record *)

\* C24: an asset that has a snapshot keeps at least one through every handler
\* call that leaves the asset in place (price upserts, edits by id, deletions
\* through the detail view), and a delete request on an asset's only snapshot
\* leaves the snapshot list unchanged.
C24_Step ==
    /\ \A a \in assetIds :
           (a \in {assets'[i].id : i \in 1..Len(assets')} /\ snapshotCount(a) >= 1)
               => \E i \in 1..Len(snapshots') : snapshots'[i].assetId = a
    /\ \A i \in 1..Len(snapshots) :
           snapshotCount(snapshots[i].assetId) = 1
               => snapshotsAfterDeleteSnap(snapshots[i].id) = snapshots

C24_AtLeastOnePrice == [][C24_Step]_vars

\* a deletion through the detail view has left a live asset with one snapshot
C24_Witness ==
    /\ lastOp.op = "handleDeleteSnap"
    /\ lastOp.assetId \in assetIds
    /\ snapshotCount(lastOp.assetId) = 1

----------------------------------------------------------------------------
(* importData on any file *)

Collections ==
    {"assets", "trades", "deposits", "snapshots", "expenses", "savingsBuckets",
     "savingsTransactions", "emergencyTransactions", "healthLogs"}

\* none of the collections, one of them, all of them
CollectionSets == {{}, Collections} \cup {{c} : c \in Collections}

\* the text of a file by what JSON.parse makes of it: "invalid" throws, the
\* other kinds are the parsed value.  Of an object, `absent` are the
\* collections it has no key for and `other` the collections whose value is
\* not an array; its remaining collections are empty arrays and it holds no
\* settings
Files ==
    {[kind |-> k, absent |-> {}, other |-> {}] :
        k \in {"invalid", "null", "number", "string", "boolean", "array"}}
    \cup {[kind |-> "object", absent |-> S, other |-> {}] : S \in CollectionSets}
    \cup {[kind |-> "object", absent |-> {}, other |-> S] : S \in CollectionSets}

\* parsed && typeof parsed === 'object', JSON.parse not having thrown: a
\* number, a string or a boolean is not an object, null is falsy, an array
\* is an object
passesValidation(file) == file.kind \in {"array", "object"}

\* what a call leaves behind: the value returned, the lists of the
\* collections that are arrays, the collections that are not, the settings
Outcome(returns, lists, others, newSettings) ==
    [returns |-> returns, lists |-> lists, notArrays |-> others, settings |-> newSettings]

unchangedOutcome ==
    Outcome(FALSE, [c \in Collections |-> data[c]], notArrays, settings)

\* importData of the store that sanitizes:
\* Array.isArray(parsed.x) ? parsed.x : [] for each collection
sanitizingImportData(file) ==
    IF ~passesValidation(file) THEN unchangedOutcome
    ELSE Outcome(TRUE, [c \in Collections |-> <<>>], {}, INITIAL_DATA_settings)

\* importData of src/store.tsx: { ...INITIAL_DATA, ...parsed }
spreadingImportData(file) ==
    IF ~passesValidation(file) THEN unchangedOutcome
    ELSE Outcome(TRUE, [c \in Collections |-> <<>>], file.other, INITIAL_DATA_settings)

\* Settings.tsx handleImport on a file: importData(text) and an alert
applyImport(outcome) ==
    /\ assets' = outcome.lists["assets"]
    /\ trades' = outcome.lists["trades"]
    /\ deposits' = outcome.lists["deposits"]
    /\ snapshots' = outcome.lists["snapshots"]
    /\ expenses' = outcome.lists["expenses"]
    /\ savingsBuckets' = outcome.lists["savingsBuckets"]
    /\ savingsTransactions' = outcome.lists["savingsTransactions"]
    /\ emergencyTransactions' = outcome.lists["emergencyTransactions"]
    /\ healthLogs' = outcome.lists["healthLogs"]
    /\ settings' = outcome.settings
    /\ notArrays' = outcome.notArrays
    /\ lastOp' = NoOp
    /\ UNCHANGED <<exported, timezoneOffset, categoryVars, storeVars, viewDate,
                   expensesViewDate, deleteConfirmAssetId, now, nextId>>

handleImport(file) == applyImport(sanitizingImportData(file))

storeHandleImport(file) == applyImport(spreadingImportData(file))

NextImport ==
    \/ \E file \in Files : handleImport(file)
    \/ \E file \in Files : storeHandleImport(file)
    \/ \E target \in ParsedTargets :
           "savingsBuckets" \notin notArrays /\ handleAddBucket(target)

SpecImport == Init /\ [][NextImport]_vars

importLaw(file, outcome) ==
    IF file.kind \in {"invalid", "null", "number", "string", "boolean"}
    THEN /\ ~outcome.returns
         /\ outcome.lists = [c \in Collections |-> data[c]]
         /\ outcome.notArrays = notArrays
         /\ outcome.settings = settings
    ELSE /\ outcome.returns
         /\ outcome.notArrays = {}

\* C25: importData returns false and leaves the data unchanged for a text that
\* is not valid JSON or parses to null, a number, a string or a boolean;
\* otherwise it returns true and the data has an array for each of the nine
\* collections.
C25_ImportValidatesAndSanitizes ==
    \A file \in Files :
        /\ importLaw(file, sanitizingImportData(file))
        /\ importLaw(file, spreadingImportData(file))

----------------------------------------------------------------------------
(* StoreProvider: the load effect and the save effect *)

INITIAL_DATA ==
    [assets |-> <<>>, trades |-> <<>>, deposits |-> <<>>, snapshots |-> <<>>,
     expenses |-> <<>>, savingsBuckets |-> <<>>, savingsTransactions |-> <<>>,
     emergencyTransactions |-> <<>>, healthLogs |-> <<>>,
     settings |-> INITIAL_DATA_settings]

\* a text that JSON.parse throws on
CorruptText == [corrupt |-> TRUE]

\* what an earlier session can have left under STORAGE_KEY: nothing, a text
\* that does not parse, the data of a session that added a savings bucket
PreviousSessions ==
    {<<>>, <<CorruptText>>,
     <<stringify([INITIAL_DATA EXCEPT !.savingsBuckets = <<[id |-> 1, target |-> 10]>>])>>}

setData(value) == [set |-> "data", value |-> value, flag |-> FALSE]
setLoaded(flag) == [set |-> "loaded", value |-> INITIAL_DATA, flag |-> flag]

\* the load effect: getItem, JSON.parse and setData(sanitized) inside try,
\* setLoaded(true) in finally
loadEffect ==
    /\ ~loadEffectRan
    /\ loadEffectRan' = TRUE
    /\ updates' = updates
                  \o (IF storage # <<>> /\ storage[1] # CorruptText
                      THEN <<setData(sanitized(storage[1]))>> ELSE <<>>)
                  \o <<setLoaded(TRUE)>>
    /\ UNCHANGED <<dataVars, expenses, savingsBuckets, savingsTransactions,
                   emergencyTransactions, expensesViewDate, healthVars, timezoneOffset,
                   categoryVars, notArrays, loaded, storage, previousSession, saveDeps, viewDate,
                   deleteConfirmAssetId, now, nextId, lastOp>>

\* a save effect with no test of `loaded`
saveAlways == TRUE

\* if (loaded)
saveGuard == loaded

\* the dependencies [data, loaded] of the save effect in the last render
currentDeps == <<[data |-> data, loaded |-> loaded]>>

\* the save effect: it runs after the load effect at mount, and after every
\* render that changed data or loaded
saveEffect ==
    /\ loadEffectRan
    /\ saveDeps # currentDeps
    /\ saveDeps' = currentDeps
    /\ storage' = IF saveGuard THEN <<stringify(data)>> ELSE storage
    /\ UNCHANGED <<dataVars, expenses, savingsBuckets, savingsTransactions,
                   emergencyTransactions, expensesViewDate, healthVars, timezoneOffset,
                   categoryVars, notArrays, loaded, previousSession, updates, loadEffectRan, viewDate,
                   deleteConfirmAssetId, now, nextId, lastOp>>

\* the render that follows the effects: it takes the queued updates, all of
\* them when React batches them and the first of them when it does not
render(k) ==
    /\ loadEffectRan
    /\ saveDeps = currentDeps
    /\ k \in 1..Len(updates)
    /\ LET taken == SubSeq(updates, 1, k)
           dataSet == {i \in 1..k : taken[i].set = "data"}
           next == IF dataSet = {} THEN data
                   ELSE taken[CHOOSE i \in dataSet : \A j \in dataSet : j <= i].value
       IN  /\ assets' = next.assets
           /\ trades' = next.trades
           /\ deposits' = next.deposits
           /\ snapshots' = next.snapshots
           /\ expenses' = next.expenses
           /\ savingsBuckets' = next.savingsBuckets
           /\ savingsTransactions' = next.savingsTransactions
           /\ emergencyTransactions' = next.emergencyTransactions
           /\ healthLogs' = next.healthLogs
           /\ settings' = next.settings
           /\ loaded' = IF \E i \in 1..k : taken[i].set = "loaded" /\ taken[i].flag
                        THEN TRUE ELSE loaded
    /\ updates' = SubSeq(updates, k + 1, Len(updates))
    /\ UNCHANGED <<expensesViewDate, exported, timezoneOffset, categoryVars, notArrays,
                   storage,
                   previousSession, saveDeps, loadEffectRan, viewDate,
                   deleteConfirmAssetId, now, nextId, lastOp>>

\* the app is opened: first render with INITIAL_DATA, no effect has run
InitStore ==
    /\ assets = <<>>
    /\ trades = <<>>
    /\ deposits = <<>>
    /\ snapshots = <<>>
    /\ expenses = <<>>
    /\ savingsBuckets = <<>>
    /\ savingsTransactions = <<>>
    /\ emergencyTransactions = <<>>
    /\ healthLogs = <<>>
    /\ settings = INITIAL_DATA_settings
    /\ exported = <<>>
    /\ timezoneOffset = 0
    /\ notArrays = {}
    /\ loaded = FALSE
    /\ storage \in PreviousSessions
    /\ previousSession = storage
    /\ updates = <<>>
    /\ saveDeps = <<>>
    /\ loadEffectRan = FALSE
    /\ categoriesInitial
    /\ viewDate = thisMonth
    /\ expensesViewDate = thisMonth
    /\ deleteConfirmAssetId = 0
    /\ now = 0
    /\ nextId = 2
    /\ lastOp = NoOp

\* the screens are rendered once loaded is true: if (!loaded) return null
NextStore ==
    \/ loadEffect
    \/ saveEffect
    \/ \E k \in 1..2 : render(k)
    \/ \E target \in ParsedTargets :
           loaded /\ updates = <<>> /\ handleAddBucket(target)

SpecStore == InitStore /\ [][NextStore]_vars

\* the data the load leaves in memory
loadedData ==
    IF previousSession # <<>> /\ previousSession[1] # CorruptText
    THEN sanitized(previousSession[1]) ELSE INITIAL_DATA

\* C26: nothing is written to storage before loaded is true, so what an
\* earlier session stored is never overwritten with INITIAL_DATA before it
\* has been read; once loaded is true and until a handler changes the data,
\* the data in memory is what the load read, INITIAL_DATA after a failed load,
\* and storage holds what the earlier session left or that data.
C26_NoWriteBeforeLoad ==
    /\ ~loaded => storage = previousSession
    /\ (loaded /\ nextId = 2) => data = loadedData
    /\ nextId = 2 => storage \in {previousSession, <<stringify(loadedData)>>}

\* the save effect has written after the load of an earlier session's data
C26_Witness ==
    /\ loaded
    /\ previousSession # <<>> /\ previousSession[1] # CorruptText
    /\ data # INITIAL_DATA
    /\ saveDeps = currentDeps
    /\ storage = <<stringify(data)>>
    /\ nextId = 2

\* the save effect has written INITIAL_DATA after a load that failed
C26_WitnessFailedLoad ==
    /\ loaded
    /\ previousSession = <<CorruptText>>
    /\ storage = <<stringify(INITIAL_DATA)>>

----------------------------------------------------------------------------
(* The viewed month *)

monthLaw(view) ==
    /\ monthIndex(view) <= monthIndex(thisMonth)
    /\ view[2] \in 0..11
    /\ monthIndex(shiftMonth(view, 0 - 1)) = monthIndex(view) - 1
    /\ shiftMonth(view, 0 - 1)[2] \in 0..11
    /\ shiftMonth(shiftMonth(view, 0 - 1), 1) = view

\* C27: after any sequence of changeMonth(-1), changeMonth(+1) (offered only
\* while the viewed month is not the current month) and jumpToToday, on the
\* Investments screen and in the Expenses view, the viewed (year, month) is at
\* most the current one, the month index is in 0..11 with the year carried
\* on wrap, and changeMonth(-1) followed by changeMonth(+1) returns to the
\* same (year, month).
C27_ViewNeverAhead == monthLaw(viewDate) /\ monthLaw(expensesViewDate)

\* the Investments screen has gone back across the turn of the year, to the
\* December before
C27_Witness ==
    /\ viewDate[1] = thisMonth[1] - 1
    /\ viewDate[2] = 11

----------------------------------------------------------------------------
(* Prices of the snapshots *)

\* what parseFloat makes of a price field: not a number, negative, zero,
\* positive
SubmittedPrices == {NAN, 0 - 10, 0, 10, 20}

NextPrices ==
    \/ \E h \in {0} \cup {a \in Amounts : a > 0}, p \in SubmittedPrices, d \in InvestDates :
           handleAddAsset(h, p, d)
    \/ \E a \in assetIds, p \in SubmittedPrices, d \in InvestDates : handleSavePrice(a, p, d)
    \/ \E id \in 1..MaxId, p \in SubmittedPrices, d \in InvestDates :
           handleUpdateSnapshot(id, d, p)
    \/ \E priceOf \in [assetIds -> SubmittedPrices], d \in InvestDates :
           handleUpdatePrices(priceOf, d)
    \/ \E id \in 1..MaxId : handleDeleteSnap(id)

SpecPrices == Init /\ [][NextPrices]_vars

\* C28: after any sequence of add-asset, update-prices, price upsert through
\* the detail view and snapshot edit by id, every snapshot's price is greater
\* than 0, and a submitted price that is 0, negative or not a number is not
\* taken by the upsert and the edit forms.
C28_PricesPositive ==
    /\ \A i \in 1..Len(snapshots) : snapshots[i].price # NAN /\ snapshots[i].price > 0
    /\ \A p \in {q \in SubmittedPrices : q = NAN \/ q <= 0}, d \in InvestDates :
           /\ \A a \in assetIds : ~ENABLED handleSavePrice(a, p, d)
           /\ \A id \in 1..MaxId : ~ENABLED handleUpdateSnapshot(id, d, p)

\* an asset added with a price, and its snapshot edited to another price
C28_Witness ==
    \E i \in 1..Len(snapshots) :
        /\ snapshots[i].assetId \in assetIds
        /\ snapshots[i].price = 20
        /\ \E j \in 1..Len(snapshots) : snapshots[j].price = 10

----------------------------------------------------------------------------
(* Settings: the expense category list *)

MaxCategories == 3

\* what the name fields can hold: nothing, a blank, names, a padded name
CategoryInputs == {"", " ", "A", " A", "B", "C"}

\* String.prototype.trim on these texts
trim(text) ==
    CASE text = " " -> ""
      [] text = " A" -> "A"
      [] OTHER -> text

categories == expenseCategories

\* a list that takes every name as new
neverIncludes(list, name) == FALSE

\* categories.includes(name)
includes(list, name) == \E i \in 1..Len(list) : list[i] = name

\* addCategory with newCategoryName in the field
addCategory(newCategoryName) ==
    /\ Len(categories) < MaxCategories
    /\ trim(newCategoryName) # ""
    /\ ~includes(categories, trim(newCategoryName))
    /\ expenseCategories' = categories \o <<trim(newCategoryName)>>
    /\ lastOp' = NoOp
    /\ UNCHANGED <<dataVars, expenses, savingsBuckets, savingsTransactions,
                   emergencyTransactions, expensesViewDate, healthVars, timezoneOffset,
                   notArrays, categoryBudgets, storeVars, viewDate,
                   deleteConfirmAssetId, now, nextId>>

\* deleteCategory, confirmed
deleteCategory(cat) ==
    /\ includes(categories, cat)
    /\ expenseCategories' = SelectSeq(categories, LAMBDA c : c # cat)
    /\ lastOp' = NoOp
    /\ UNCHANGED <<dataVars, expenses, savingsBuckets, savingsTransactions,
                   emergencyTransactions, expensesViewDate, healthVars, timezoneOffset,
                   notArrays, categoryBudgets, storeVars, viewDate,
                   deleteConfirmAssetId, now, nextId>>

\* the list moveCategory hands to updateData, the list itself when it returns
\* before; index counts from 1
movedCategories(index, direction) ==
    LET targetIndex == IF direction = "up" THEN index - 1 ELSE index + 1
    IN  IF targetIndex < 1 \/ targetIndex > Len(categories) THEN categories
        ELSE [i \in 1..Len(categories) |->
                 IF i = index THEN categories[targetIndex]
                 ELSE IF i = targetIndex THEN categories[index]
                 ELSE categories[i]]

moveCategory(index, direction) ==
    /\ index \in 1..Len(categories)
    /\ expenseCategories' = movedCategories(index, direction)
    /\ lastOp' = NoOp
    /\ UNCHANGED <<dataVars, expenses, savingsBuckets, savingsTransactions,
                   emergencyTransactions, expensesViewDate, healthVars, timezoneOffset,
                   notArrays, categoryBudgets, storeVars, viewDate,
                   deleteConfirmAssetId, now, nextId>>

\* saveRename returns before any update: an empty name, a name already taken
renameRefused(oldName, newName) ==
    \/ trim(newName) = ""
    \/ trim(newName) # oldName /\ includes(categories, trim(newName))

\* what saveRename hands to updateData, the data as it is when it returns before
renamed(oldName, newName) ==
    LET trimmedNew == trim(newName)
        names == DOMAIN categoryBudgets
    IN  IF renameRefused(oldName, newName)
        THEN [expenseCategories |-> categories, expenses |-> expenses,
              categoryBudgets |-> categoryBudgets]
        ELSE [expenseCategories |->
                  [i \in 1..Len(categories) |->
                      IF categories[i] = oldName THEN trimmedNew ELSE categories[i]],
              expenses |->
                  [i \in 1..Len(expenses) |->
                      IF expenses[i].category = oldName
                      THEN [expenses[i] EXCEPT !.category = trimmedNew]
                      ELSE expenses[i]],
              categoryBudgets |->
                  IF oldName \in names /\ categoryBudgets[oldName] # 0
                  THEN [n \in (names \cup {trimmedNew}) \ ({oldName} \ {trimmedNew}) |->
                           IF n = trimmedNew THEN categoryBudgets[oldName]
                           ELSE categoryBudgets[n]]
                  ELSE categoryBudgets]

\* startRename(oldName) on a row of the list, the field edited, saveRename
saveRename(oldName, newName) ==
    /\ includes(categories, oldName)
    /\ ~renameRefused(oldName, newName)
    /\ expenseCategories' = renamed(oldName, newName).expenseCategories
    /\ expenses' = renamed(oldName, newName).expenses
    /\ categoryBudgets' = renamed(oldName, newName).categoryBudgets
    /\ lastOp' = Op("saveRename", 0, 0, NoDate, 0)
    /\ UNCHANGED <<dataVars, savingsBuckets, savingsTransactions,
                   emergencyTransactions, expensesViewDate, healthVars, timezoneOffset,
                   notArrays, storeVars, viewDate, deleteConfirmAssetId, now, nextId>>

\* ExpensesView.handleSave with a category of the list selected
handleSaveInCategory(amount, date, cat) ==
    /\ includes(categories, cat)
    /\ flowCount < MaxFlows
    /\ expenses' = <<[id |-> nextId, amount |-> amount, date |-> date, category |-> cat]>>
                   \o expenses
    /\ nextId' = nextId + 1
    /\ lastOp' = NoOp
    /\ UNCHANGED <<expensesViewDate, expensesUnchanged>>

\* the budgets a saved settings form leaves: none, or one for the first name
InitCategories ==
    /\ assets = <<>>
    /\ trades = <<>>
    /\ deposits = <<>>
    /\ snapshots = <<>>
    /\ expenses = <<>>
    /\ savingsBuckets = <<>>
    /\ savingsTransactions = <<>>
    /\ emergencyTransactions = <<>>
    /\ healthLogs = <<>>
    /\ settings = INITIAL_DATA_settings
    /\ exported = <<>>
    /\ timezoneOffset = 0
    /\ notArrays = {}
    /\ storeMounted
    /\ expenseCategories = DEFAULT_CATEGORIES
    /\ categoryBudgets \in {[n \in S |-> 5] : S \in {{}, {DEFAULT_CATEGORIES[1]}}}
    /\ viewDate = thisMonth
    /\ expensesViewDate = thisMonth
    /\ deleteConfirmAssetId = 0
    /\ now = 0
    /\ nextId = 1
    /\ lastOp = NoOp

NextCategories ==
    \/ \E name \in CategoryInputs : addCategory(name)
    \/ \E cat \in CategoryInputs : deleteCategory(cat)
    \/ \E index \in 1..MaxCategories, direction \in {"up", "down"} :
           moveCategory(index, direction)
    \/ \E oldName \in CategoryInputs, newName \in CategoryInputs :
           saveRename(oldName, newName)
    \/ \E cat \in CategoryInputs : handleSaveInCategory(5, <<2024, 2, 1>>, cat)

SpecCategories == InitCategories /\ [][NextCategories]_vars

categoryListLaw ==
    /\ \A i, j \in 1..Len(categories) : categories[i] = categories[j] => i = j
    /\ \A i \in 1..Len(categories) : trim(categories[i]) # ""
    /\ \A index \in 1..Len(categories), direction \in {"up", "down"} :
           LET newCats == movedCategories(index, direction)
           IN  /\ Range(newCats) = Range(categories)
               /\ Len(newCats) = Len(categories)
               /\ (index = 1 /\ direction = "up") => newCats = categories
               /\ (index = Len(categories) /\ direction = "down") => newCats = categories

noExpenseCarries(name, exps) == \A i \in 1..Len(exps) : exps[i].category # name

----------------------------------------------------------------------------
(* HomeScreen.stats: net worth in RON and in EUR *)

\* a product of JavaScript numbers: NaN when a factor is NaN
times(a, b) == IF a = NAN \/ b = NAN THEN NAN ELSE a * b

\* a sum of JavaScript numbers: NaN when a term is NaN
plus(a, b) == IF a = NAN \/ b = NAN THEN NAN ELSE a + b

\* investmentValueEUR * data.settings.eurRate, in hundredths of RON
investmentValueRON == times(investmentValueEUR, settings.eurRate)

\* investmentValueRON + savingsRON + emergencyRON, in hundredths of RON
netWorthRON == plus(plus(investmentValueRON, 100 * savingsRON), 100 * emergencyRON)

\* investmentValueEUR + (savingsRON / rate) + (emergencyRON / rate), as the
\* quotient of a number of hundredths of RON by the rate in hundredths
netWorthEUR ==
    [num |-> investmentValueEUR * rate + 100 * savingsRON + 100 * emergencyRON,
     den |-> rate]

\* C30: for every dataset and every settings.eurRate, 0 and a missing rate
\* included, the investment value is converted to RON with the rate that
\* converts the balances to EUR, so that netWorthRON is netWorthEUR times
\* that rate.
C30_OneExchangeRate ==
    /\ investmentValueRON = times(investmentValueEUR, rate)
    /\ netWorthRON # NAN
    /\ netWorthRON * netWorthEUR.den = netWorthEUR.num * rate

====
